---- MODULE Spec2Model ----
(***************************************************************************)
(* Layr component client: remote invocation, microbatching and the         *)
(* dependency closure of a serialized query                                *)
(* (src/unnamed/part_001, class ComponentClient).                          *)
(*                                                                         *)
(* The program is single-threaded; every `await` / possiblyAsync boundary  *)
(* is a point where other callbacks may run, so each such boundary is an   *)
(* action boundary below.                                                  *)
(***************************************************************************)
EXTENDS Integers, Sequences, FiniteSets, TLC

VARIABLES
    batchable,      \* options.batchable: whether _sendBatcher exists
    version,        \* ComponentClient._version (NoVersion = undefined)
    component,      \* ComponentClient._component ("none" = undefined)
    introspected,   \* ComponentClient._introspectedComponentServer ("none" = undefined)
    queue,          \* the microbatcher's pending operations (operation ids, in enqueue order)
    scheduled,      \* whether the microbatcher's deferred flush is queued
    flushes,        \* number of flushes run so far
    ops,            \* every operation / pending result created by send(), by id
    reqs,           \* every call made to componentServer.receive, in call order
    refs,           \* class graph: refs[c] = classes that serializing class c adds as dependencies
    empty,          \* classes whose serialize({ignoreEmptyComponents: true}) is undefined
    qdeps,          \* SerSpec: the componentDependencies collected from the query itself
    ser,            \* SerSpec: the outcome of _serializeQuery's closure on qdeps
    knownComponents, \* serialize(): options.knownComponents
    identityMap,    \* MapSpec: the identity map's entries (identifier name, value, component)
    email,          \* MapSpec: each component's secondary identifier `email` (Unset = not set)
    detached,       \* MapSpec: the components that have been detached
    thrown,         \* MapSpec: the last identity map call and the error it threw, if any
    selA,           \* SelSpec: the first attribute selector
    selB,           \* SelSpec: the second attribute selector
    selC,           \* a third attribute selector
    pickValue,      \* the value pick() is applied to
    include,        \* pick(): options.includeAttributeNames
    heap,           \* FrameSpec: the objects in memory, by reference
    doc,            \* DocSpec: the document (its fields, _isPersisted, the committed values)
    store,          \* DocSpec: the last call the store has received
    docCall,        \* DocSpec: the save() or delete() call in progress and where it stands
    routerOf,       \* RouterSpec: the router each routable component is registered in
    routables,      \* RouterSpec: the routable components each router holds
    instance,       \* InstSpec: the component instance that is serialized
    wire,           \* InstSpec: its serialized form and the instance deserialized from it
    out             \* what the AttributeSelector function called returned

vars == <<batchable, version, component, introspected, queue, scheduled, flushes,
          ops, reqs, refs, empty, qdeps, ser, knownComponents,
          identityMap, email, detached, thrown, selA, selB, selC, pickValue, include, heap,
          doc, store, docCall, routerOf, routables, instance, wire, out>>

clientVars == <<batchable, version, component, introspected, queue, scheduled, flushes, ops, reqs>>

serVars == <<refs, empty, qdeps, ser, knownComponents>>

mapVars == <<identityMap, email, detached, thrown>>

selVars == <<selA, selB, selC, pickValue, include, heap, out>>

selArgs == <<selA, selB, selC, pickValue, include, heap>>

docVars == <<doc, store, docCall>>

routerVars == <<routerOf, routables>>

instVars == <<instance, wire>>

appVars == <<docVars, routerVars, instVars>>

(***************************************************************************)
(* Bounds                                                                  *)
(***************************************************************************)
MaxOps == 3

\* ProxySpec: the number of proxy method calls.
MaxProxyCalls == 2


(***************************************************************************)
(* Data                                                                    *)
(***************************************************************************)
Classes == {"A", "B", "C"}

\* A fixed iteration order standing for the insertion order of a JS Set.
ClassOrder == <<"A", "B", "C">>

MutantFuel == 2 * Cardinality(Classes)

\* The calls an application makes through send(): a query and its rootComponent.
Calls == {[q |-> "q1", root |-> "A"], [q |-> "q2", root |-> "B"]}

\* The serialized result a server computes for the i-th query of a request;
\* "err" stands for the {__error: ...} sentinel it sends when that query threw.
ResultPayload(i) == "r" \o ToString(i)

Range(s) == {s[i] : i \in 1..Len(s)}

NoValue == [ok |-> FALSE, v |-> "none", root |-> "none"]

NoResp == [fail |-> FALSE, error |-> "none", componentsOk |-> FALSE, results |-> <<>>]

\* The responses receive() can produce for a request carrying n queries: a failure of
\* the call itself, or {result, components} where the components may or may not
\* deserialize and each query's result is its payload or the error sentinel.
Responses(n) ==
    {[fail |-> TRUE, error |-> "TransportError", componentsOk |-> FALSE, results |-> <<>>]}
    \cup {[fail |-> FALSE, error |-> "none", componentsOk |-> FALSE,
           results |-> [i \in 1..n |-> ResultPayload(i)]]}
    \cup {[fail |-> FALSE, error |-> "none", componentsOk |-> TRUE,
           results |-> [i \in 1..n |-> IF i \in E THEN "err" ELSE ResultPayload(i)]] :
          E \in SUBSET (1..n)}

\* options.version left out: this._version is undefined and the request carries no version.
NoVersion == 0

\* The component server (package @layr/component-server) is not part of the sources.
\* Its contract: it compares the version a request carries with its own and rejects a
\* mismatch before it processes the query, so that no result is computed.
ServerVersion == 1

VersionMismatchResponse ==
    [fail |-> TRUE, error |-> "VersionMismatch", componentsOk |-> FALSE, results |-> <<>>]

ServerReceive(request) ==
    IF request.version # NoVersion /\ request.version # ServerVersion
    THEN {VersionMismatchResponse}
    ELSE Responses(Len(request.ops))

(***************************************************************************)
(* _serializeQuery: the dependency closure                                 *)
(***************************************************************************)
\* componentDependency.serialize({ignoreEmptyComponents: true, ...}): undefined (<<>>)
\* for a class with no attribute passing the filter, otherwise one serialized entry.
SerializeComponent(c) == IF c \in empty THEN <<>> ELSE <<c>>

\* Variant of IsHandled: the handled check left out; it is honoured again after
\* MutantFuel calls so that the evaluation ends on cyclic graphs too.
IsHandledFuel(st, c) == Len(st.calls) >= MutantFuel /\ c \in st.handled

\* handledComponentDependencies.has(componentDependency)
IsHandled(st, c) == c \in st.handled

\* One iteration of the for loop over componentDependencies.values().
LoopStep(st, c) ==
    IF IsHandled(st, c)
    THEN st
    ELSE [st EXCEPT !.list = @ \o SerializeComponent(c),
                    !.calls = Append(@, c),
                    !.additional = @ \cup refs[c],
                    !.handled = @ \cup {c}]

RECURSIVE LoopFrom(_, _, _)
LoopFrom(i, deps, st) ==
    IF i > Len(ClassOrder) THEN st
    ELSE IF ClassOrder[i] \in deps
         THEN LoopFrom(i + 1, deps, LoopStep(st, ClassOrder[i]))
         ELSE LoopFrom(i + 1, deps, st)

\* Variant of SerializeComponentDependencies: one pass, no recursive call.
SerializeDepsNoRecursion(deps, st) ==
    IF deps = {} THEN st
    ELSE LoopFrom(1, deps, [st EXCEPT !.additional = {}, !.passes = Append(@, deps)])

\* serializeComponentDependencies(componentDependencies): one pass, then the
\* recursive call on the dependencies discovered by that pass.
RECURSIVE SerializeComponentDependencies(_, _)
SerializeComponentDependencies(deps, st) ==
    IF deps = {} THEN st
    ELSE LET after == LoopFrom(1, deps, [st EXCEPT !.additional = {},
                                                   !.passes = Append(@, deps)])
         IN SerializeComponentDependencies(after.additional, after)

\* Variant of FreshHandled: the handled set is a field of the client, which keeps the
\* classes handled by the earlier sends.
LifetimeHandled == UNION {reqs[r].handled : r \in 1..Len(reqs)}

\* const handledComponentDependencies: ComponentSet = new Set(), a local of
\* _serializeQuery.
FreshHandled == {}

\* _serializeQuery(query), from the dependencies its own serialization collected:
\* a fresh handled set and an undefined (empty) list on every call.
\* list: serializedComponentDependencies; handled: handledComponentDependencies;
\* calls: the classes componentDependency.serialize() was called on, in call order;
\* passes: the argument of each call of serializeComponentDependencies that ran a pass;
\* additional: the additionalComponentDependency set of the last pass.
NoDeps == [handled |-> FreshHandled, list |-> <<>>, calls |-> <<>>, additional |-> {}, passes |-> <<>>]

SerializeQuery(deps) == SerializeComponentDependencies(deps, NoDeps)

\* The classes a query {'<=': X, ...} references: the receiver's class.
QueryDeps(root) == IF root = "none" THEN {} ELSE {root}

(***************************************************************************)
(* deserialize                                                             *)
(***************************************************************************)
\* deserialize(serializedResult, {rootComponent, errorHandler}): the error sentinel
\* reaches errorHandler, which throws; any other payload is rebuilt against root.
Deserialize(payload, root) ==
    IF payload = "err"
    THEN [ok |-> FALSE, v |-> "RemoteError", root |-> root]
    ELSE [ok |-> TRUE, v |-> payload, root |-> root]

TransportError == [ok |-> FALSE, v |-> "TransportError", root |-> "none"]

\* The rejection of receive's promise, as the caller of receive sees it.
ReceiveError(resp) == [ok |-> FALSE, v |-> resp.error, root |-> "none"]

ComponentsError == [ok |-> FALSE, v |-> "ComponentsError", root |-> "none"]

\* Component.unintrospect(introspectedComponentServer.component, ...) (package
\* @layr/component) reconstructs a component class from the introspection: each call
\* builds a class of its own. `by` names the call: the operation whose response the
\* callback of _createComponent handles, 0 for a call on the cached introspection.
Unintrospect(i, by) == i \o "#" \o ToString(by)

(***************************************************************************)
(* Identity map: its components                                            *)
(***************************************************************************)
\* The identity map (class IdentityMap, ./identity-map) is not part of the sources;
\* only its tests are (part_001:795-958). It is modelled from the spec and from what
\* those tests exercise: components of a class User with a primary identifier `id`
\* and a secondary identifier `email`.
Users == {"u1", "u2", "u3"}

\* new User({id: ...}): the primary identifier is set at construction and never
\* changes; u3 is a distinct component constructed with the id of u1.
PrimaryId == [c \in Users |-> IF c = "u2" THEN "xyz456" ELSE "abc123"]

Emails == {"hi@hello.com", "salut@bonjour.com"}

\* An identifier attribute that is not set; also what getComponent() returns for a miss.
Unset == "undefined"

NoThrown == [op |-> "none", component |-> "none", error |-> "none"]

InitIdentityMap ==
    /\ identityMap = {}
    /\ detached = {}
    /\ thrown = NoThrown

(***************************************************************************)
(* Attribute selectors: their values                                       *)
(***************************************************************************)
\* An attribute selector is undefined, true, false or a plain object whose properties
\* are attribute selectors. fields is the object's properties (<<>> for the others).
SelUndefined == [t |-> "undefined", fields |-> <<>>]

SelTrue == [t |-> "true", fields |-> <<>>]

SelFalse == [t |-> "false", fields |-> <<>>]

SelObject(fields) == [t |-> "object", fields |-> fields]

NoOut == [done |-> FALSE, sum |-> SelUndefined]

\* No third selector and no pick() arguments.
InitPickArgs ==
    /\ selC = SelUndefined
    /\ pickValue = SelUndefined
    /\ include = {}
    /\ heap = <<>>

InitSelectors ==
    /\ selA = SelUndefined
    /\ selB = SelUndefined
    /\ InitPickArgs
    /\ out = NoOut

(***************************************************************************)
(* Initial state                                                           *)
(***************************************************************************)
ChainRefs == [c \in Classes |-> IF c = "A" THEN {"B"} ELSE IF c = "B" THEN {"C"} ELSE {}]

InitClient ==
    /\ component = "none"
    /\ introspected = "none"
    /\ queue = <<>>
    /\ scheduled = FALSE
    /\ flushes = 0
    /\ ops = <<>>
    /\ reqs = <<>>

NoSer == [done |-> FALSE, out |-> NoDeps]

\* No document at work.
InitDoc ==
    /\ doc = "none"
    /\ store = <<>>
    /\ docCall = "none"

\* No router at work.
InitRouter ==
    /\ routerOf = <<>>
    /\ routables = <<>>

\* No instance being serialized.
InitInstance ==
    /\ instance = "none"
    /\ wire = "none"

InitApp ==
    /\ InitDoc
    /\ InitRouter
    /\ InitInstance

Init ==
    /\ batchable \in BOOLEAN
    /\ version = NoVersion
    /\ InitClient
    /\ refs = ChainRefs
    /\ empty = {}
    /\ qdeps = {}
    /\ ser = NoSer
    /\ knownComponents = {}
    /\ InitIdentityMap
    /\ InitApp
    /\ email = [c \in Users |-> Unset]
    /\ InitSelectors

(***************************************************************************)
(* send, _sendOne, the microbatcher                                        *)
(***************************************************************************)
NewOp(q, root, kind) ==
    [q |-> q, root |-> root, kind |-> kind, tick |-> flushes,
     st |-> "pending", val |-> NoValue, cont |-> FALSE]

NewReq(operations, query, flush) ==
    LET serialized == SerializeQuery(UNION {QueryDeps(ops'[operations[i]].root) :
                                            i \in 1..Len(operations)})
    IN
    [ops |-> operations, query |-> query,
     components |-> serialized.list,
     handled0 |-> NoDeps.handled, handled |-> serialized.handled,
     version |-> version, flush |-> flush, pc |-> "sent", resp |-> NoResp, idx |-> 0, trace |-> <<>>,
     croot |-> "unused"]

\* _sendOne up to the receive call: the query is sent unwrapped.
SendOneQuery(operations) == [batch |-> FALSE, qs |-> <<ops'[operations[1]].q>>]

\* Variant of SendManyQuery: the queries in reverse order.
SendManyQueryReversed(operations) ==
    [batch |-> TRUE,
     qs |-> [i \in 1..Len(operations) |-> ops'[operations[Len(operations) + 1 - i]].q]]

\* const queries = {'||': operations.map(({params: [query]}) => query)}
SendManyQuery(operations) ==
    [batch |-> TRUE, qs |-> [i \in 1..Len(operations) |-> ops'[operations[i]].q]]

\* Variant of IsSingle: the one-operation branch is never taken.
IsSingleNever(operations) == FALSE

\* if (operations.length === 1)
IsSingle(operations) == Len(operations) = 1

\* _sendMany(operations) up to its receive call.
SendMany(operations, flush) ==
    reqs' = Append(reqs, NewReq(operations,
                                IF IsSingle(operations) THEN SendOneQuery(operations)
                                                        ELSE SendManyQuery(operations),
                                flush))

\* The microbatcher (package `microbatcher`, constructed with _sendMany as its runner)
\* is not part of the sources. Its contract: batch(...params) appends an operation
\* {params, resolve, reject} to the pending operations and defers one flush per tick;
\* the flush takes every pending operation at once and calls the runner with them.
\* Settling the operations is the runner's business: the promise _sendMany returns is
\* not observed.

\* Microbatcher.batch(query, options): enqueue, and defer one flush for the tick.
Batch(q, root, kind) ==
    /\ ops' = Append(ops, NewOp(q, root, kind))
    /\ queue' = Append(queue, Len(ops) + 1)
    /\ scheduled' = TRUE
    /\ UNCHANGED <<reqs, flushes>>

\* Variant of SendBody: the batcher is ignored and every send goes out at once.
SendBodyImmediate(q, root, kind) ==
    /\ ops' = Append(ops, NewOp(q, root, kind))
    /\ reqs' = Append(reqs, NewReq(<<Len(ops) + 1>>, SendOneQuery(<<Len(ops) + 1>>), 0))
    /\ UNCHANGED <<queue, scheduled, flushes>>

\* send(query, options)
SendBody(q, root, kind) ==
    IF batchable
    THEN Batch(q, root, kind)
    ELSE /\ ops' = Append(ops, NewOp(q, root, kind))
         /\ reqs' = Append(reqs, NewReq(<<Len(ops) + 1>>, SendOneQuery(<<Len(ops) + 1>>), 0))
         /\ UNCHANGED <<queue, scheduled, flushes>>

Send(c) ==
    /\ Len(ops) < MaxOps
    /\ SendBody(c.q, c.root, "call")
    /\ UNCHANGED <<batchable, version, component, introspected, refs, empty, qdeps, ser, knownComponents, mapVars, selVars, appVars>>

(***************************************************************************)
(* _createMethodProxy                                                      *)
(***************************************************************************)
\* The values a proxy method is called on (`this`): a class, or an instance of one.
Instances == {"a1"}

ClassOfInstance == [x \in Instances |-> "A"]

Receivers == {"B"} \cup Instances

MethodNames == {"find", "save"}

ArgLists == {<<>>, <<"x">>}

\* ensureComponentClass(component) (package @layr/component): the component itself
\* when it is a class, the class of the instance otherwise.
EnsureComponentClass(this) == IF this \in Classes THEN this ELSE ClassOfInstance[this]

\* Variant of MethodQuery: '<=' is bound to the class of `this` instead of `this`.
MethodQueryOnClass(name, this, args) ==
    ("<=" :> EnsureComponentClass(this)) @@ ((name \o "=>") :> ("()" :> args))

\* const query = {'<=': this, [`${name}=>`]: {'()': args}}
MethodQuery(name, this, args) ==
    ("<=" :> this) @@ ((name \o "=>") :> ("()" :> args))

\* The function _createMethodProxy(name) returns, called on `this` with args.
CallMethodProxy(name, this, args) ==
    /\ Len(ops) < MaxProxyCalls
    /\ SendBody(MethodQuery(name, this, args), EnsureComponentClass(this), "call")
    /\ UNCHANGED <<batchable, version, component, introspected, refs, empty, qdeps, ser, knownComponents, mapVars, selVars, appVars>>

\* Variant of FlushRemainder: the flush leaves the operations in the queue.
FlushKeepQueue(operations) == queue

\* The queue the microbatcher is left with when a flush takes `operations`.
FlushRemainder(operations) == <<>>

\* The microbatcher's deferred flush: take every pending operation, run _sendMany.
Flush ==
    /\ scheduled
    /\ scheduled' = FALSE
    /\ queue' = FlushRemainder(queue)
    /\ flushes' = flushes + 1
    /\ ops' = ops
    /\ SendMany(queue, flushes + 1)
    /\ UNCHANGED <<batchable, version, component, introspected, refs, empty, qdeps, ser, knownComponents, mapVars, selVars, appVars>>

(***************************************************************************)
(* getComponent                                                            *)
(***************************************************************************)
GetComponent ==
    /\ IF component # "none"
       THEN UNCHANGED <<component, queue, scheduled, flushes, ops, reqs>>
       ELSE IF introspected # "none"
            THEN /\ component' = Unintrospect(introspected, 0)
                 /\ UNCHANGED <<queue, scheduled, flushes, ops, reqs>>
            ELSE /\ Len(ops) < MaxOps
                 /\ SendBody("introspect", "none", "introspect")
                 /\ UNCHANGED component
    /\ UNCHANGED <<batchable, version, introspected, refs, empty, qdeps, ser, knownComponents, mapVars, selVars, appVars>>

(***************************************************************************)
(* The response: receive's outcome, then deserialize(components), then     *)
(* deserialize(result) for each operation                                  *)
(***************************************************************************)
Settle(opId, outcome) ==
    /\ ops' = [ops EXCEPT ![opId].st = IF outcome.ok THEN "resolved" ELSE "rejected",
                          ![opId].val = outcome]
    \* _introspectComponentServer's callback runs when its send() resolves
    /\ introspected' = IF ops[opId].kind = "introspect" /\ outcome.ok
                       THEN outcome.v ELSE introspected

\* What a failure before the results loop does to the operations of request r.
\* _sendOne's promise rejects, and the one-operation branch of _sendMany catches that
\* and rejects its operation; the '||' branch has no handler around `await receive`
\* and `await deserialize(components)`, so _sendMany itself rejects and no operation
\* is settled.
FailureBeforeResults(r, error) ==
    IF reqs[r].query.batch
    THEN UNCHANGED <<ops, introspected>>
    ELSE Settle(reqs[r].ops[1], error)

ComponentsEvent == [ev |-> "components", index |-> 0, op |-> 0]

\* Variant of ComponentsFirst: the components are not deserialized before the results.
ComponentsSkipped(r) == <<>>

\* deserialize(serializedComponents, {rootComponent, ...}) is called, and has
\* completed, before the first deserialize(serializedResult, ...) is called.
ComponentsFirst(r) == <<ComponentsEvent>>

\* Variant of AfterFailure: a request that failed is handed to receive once more.
RetryAfterFailure(r, resp) ==
    LET over == [reqs EXCEPT ![r].resp = resp,
                             ![r].pc = IF reqs[r].query.batch THEN "threw" ELSE "done"]
    IN IF \E r2 \in 1..Len(reqs) : r2 # r /\ reqs[r2].ops = reqs[r].ops
       THEN over
       ELSE Append(over, reqs[r])

\* A failure of receive or of deserialize(components) ends the request: neither
\* _sendOne nor _sendMany calls receive again for its operations.
AfterFailure(r, resp) ==
    [reqs EXCEPT ![r].resp = resp,
                 ![r].pc = IF reqs[r].query.batch THEN "threw" ELSE "done"]

\* Variant of ComponentsRoot: the rootComponent of the last operation.
ComponentsRootLast(r) == ops[reqs[r].ops[Len(reqs[r].ops)]].root

\* The rootComponent the response's components are deserialized against:
\* operations[0].params[1].rootComponent in _sendMany, options.rootComponent of the one
\* call in _sendOne.
ComponentsRoot(r) == ops[reqs[r].ops[1]].root

\* componentServer.receive(...) returns or fails; on a response the continuation
\* deserializes the response's components at once.
Receive(r) ==
    /\ reqs[r].pc = "sent"
    /\ \E resp \in ServerReceive(reqs[r]) :
          IF resp.fail \/ ~resp.componentsOk
          THEN /\ FailureBeforeResults(r, IF resp.fail THEN ReceiveError(resp)
                                                       ELSE ComponentsError)
               /\ reqs' = [AfterFailure(r, resp) EXCEPT
                              ![r].croot = IF resp.fail THEN "unused" ELSE ComponentsRoot(r)]
          ELSE /\ reqs' = [reqs EXCEPT ![r].resp = resp, ![r].pc = "results", ![r].idx = 1,
                                       ![r].trace = ComponentsFirst(r),
                                       ![r].croot = ComponentsRoot(r)]
               /\ UNCHANGED <<ops, introspected>>
    /\ UNCHANGED <<batchable, version, component, queue, scheduled, flushes,
                   refs, empty, qdeps, ser, knownComponents, mapVars, selVars, appVars>>

\* Variant of ResultAt: every operation gets the first result.
ResultAtFirst(r, index) == reqs[r].resp.results[1]

\* (serializedResponse.result as unknown[])[index]; the whole result for a single send
ResultAt(r, index) == reqs[r].resp.results[index]

\* rootComponent: operation.params[1].rootComponent
ResultRoot(r, index) == ops[reqs[r].ops[index]].root

\* Variant of LoopAfterResult: the try/catch around the loop, so an error ends it.
LoopStopsAfterError(r, index, outcome) ==
    IF ~outcome.ok THEN "threw"
    ELSE IF index = Len(reqs[r].ops) THEN "done" ELSE "results"

\* The try/catch sits inside the for loop: after resolve or reject the loop goes on.
LoopAfterResult(r, index, outcome) ==
    IF index = Len(reqs[r].ops) THEN "done" ELSE "results"

\* One deserialize(serializedResult, ...) and the resolve / reject that follows it.
DeserializeResult(r) ==
    /\ reqs[r].pc = "results"
    /\ LET index == reqs[r].idx
           outcome == Deserialize(ResultAt(r, index), ResultRoot(r, index))
       IN /\ Settle(reqs[r].ops[index], outcome)
          /\ reqs' = [reqs EXCEPT ![r].pc = LoopAfterResult(r, index, outcome),
                                  ![r].idx = index + 1,
                                  ![r].trace = Append(@, [ev |-> "result", index |-> index,
                                                          op |-> reqs[r].ops[index]])]
    /\ UNCHANGED <<batchable, version, component, queue, scheduled, flushes,
                   refs, empty, qdeps, ser, knownComponents, mapVars, selVars, appVars>>

\* _createComponent's and getComponent's callbacks, once the introspection resolved.
CreateComponent(o) ==
    /\ ops[o].kind = "introspect"
    /\ ops[o].st = "resolved"
    /\ ~ops[o].cont
    /\ ops' = [ops EXCEPT ![o].cont = TRUE]
    /\ component' = Unintrospect(ops[o].val.v, o)
    /\ UNCHANGED <<batchable, version, introspected, queue, scheduled, flushes, reqs,
                   refs, empty, qdeps, ser, knownComponents, mapVars, selVars, appVars>>

(***************************************************************************)
(* Spec: send() called directly with queries, batched or not.              *)
(* GetSpec: getComponent() and its introspection, next to send() calls.    *)
(***************************************************************************)
Next ==
    \/ \E c \in Calls : Send(c)
    \/ Flush
    \/ \E r \in 1..Len(reqs) : Receive(r)
    \/ \E r \in 1..Len(reqs) : DeserializeResult(r)

Spec == Init /\ [][Next]_vars

GetNext ==
    \/ GetComponent
    \/ \E c \in {[q |-> "q1", root |-> "A"]} : Send(c)
    \/ Flush
    \/ \E r \in 1..Len(reqs) : Receive(r)
    \/ \E r \in 1..Len(reqs) : DeserializeResult(r)
    \/ \E o \in 1..Len(ops) : CreateComponent(o)

GetSpec == Init /\ [][GetNext]_vars

\* ProxySpec: the application calls the proxy methods of the served component.
ProxyNext ==
    \/ \E name \in MethodNames, this \in Receivers, args \in ArgLists :
          CallMethodProxy(name, this, args)
    \/ Flush
    \/ \E r \in 1..Len(reqs) : Receive(r)
    \/ \E r \in 1..Len(reqs) : DeserializeResult(r)

ProxySpec == Init /\ [][ProxyNext]_vars

\* VerSpec: the same client constructed with options.version, against a server of
\* version ServerVersion.
VerInit ==
    /\ batchable \in BOOLEAN
    /\ version \in {ServerVersion, ServerVersion + 1}
    /\ InitClient
    /\ refs = ChainRefs
    /\ empty = {}
    /\ qdeps = {}
    /\ ser = NoSer
    /\ knownComponents = {}
    /\ InitIdentityMap
    /\ InitApp
    /\ email = [c \in Users |-> Unset]
    /\ InitSelectors

VerSpec == VerInit /\ [][GetNext]_vars

(***************************************************************************)
(* SerSpec: _serializeQuery applied to every class graph over Classes      *)
(***************************************************************************)
SerInit ==
    /\ batchable = FALSE
    /\ version = NoVersion
    /\ InitClient
    /\ refs \in [Classes -> SUBSET Classes]
    /\ empty \in SUBSET Classes
    /\ qdeps \in SUBSET Classes
    /\ ser = NoSer
    /\ knownComponents = {}
    /\ InitIdentityMap
    /\ InitApp
    /\ email = [c \in Users |-> Unset]
    /\ InitSelectors

SerializeQueryCall ==
    /\ ~ser.done
    /\ ser' = [done |-> TRUE, out |-> SerializeQuery(qdeps)]
    /\ UNCHANGED <<clientVars, refs, empty, qdeps, knownComponents, mapVars, selVars, appVars>>

SerNext == SerializeQueryCall

SerSpec == SerInit /\ [][SerNext]_vars

\* SerLiveSpec: every class graph and every set of query dependencies, no class being
\* empty. _serializeQuery is synchronous: once called it runs to its end.
SerLiveInit ==
    /\ batchable = FALSE
    /\ version = NoVersion
    /\ InitClient
    /\ refs \in [Classes -> SUBSET Classes]
    /\ empty = {}
    /\ qdeps \in SUBSET Classes
    /\ ser = NoSer
    /\ knownComponents = {}
    /\ InitIdentityMap
    /\ InitApp
    /\ email = [c \in Users |-> Unset]
    /\ InitSelectors

SerLiveSpec == SerLiveInit /\ [][SerNext]_vars /\ WF_vars(SerNext)

(***************************************************************************)
(* MapSpec: an identity map of Users and the calls made on it              *)
(***************************************************************************)
SameIdentifierError == "A component with the same identifier already exists"

AddDetachedError == "Cannot add a detached component to the identity map"

RemoveDetachedError == "Cannot remove a detached component from the identity map"

\* The identifier attributes of c that are set, each with its value.
Identifiers(c) ==
    {<<"id", PrimaryId[c]>>} \cup (IF email[c] = Unset THEN {} ELSE {<<"email", email[c]>>})

Entry(name, value, c) == [name |-> name, value |-> value, component |-> c]

Holders(map, name, value) ==
    {e.component : e \in {e \in map : e.name = name /\ e.value = value}}

\* identityMap.getComponent({[name]: value}): the component, or undefined.
IdentityMapGetComponent(map, name, value) ==
    IF Holders(map, name, value) = {} THEN Unset
    ELSE CHOOSE c \in Holders(map, name, value) : TRUE

\* Variant of IdentifierExists: the existing entry is not looked for.
IdentifierExistsNever(map, name, value, but) == FALSE

\* Whether a component other than those of `but` holds value for identifier name.
IdentifierExists(map, name, value, but) == Holders(map, name, value) \ but # {}

\* Variant of IsDetached: the detached state is not looked at.
IsDetachedNever(c) == FALSE

\* component.isDetached()
IsDetached(c) == c \in detached

\* addComponent(c): what it throws and the map it leaves.
AddComponentResult(map, c) ==
    IF IsDetached(c)
    THEN [error |-> AddDetachedError, map |-> map]
    ELSE IF \E i \in Identifiers(c) : IdentifierExists(map, i[1], i[2], {})
         THEN [error |-> SameIdentifierError, map |-> map]
         ELSE [error |-> "none",
               map |-> map \cup {Entry(i[1], i[2], c) : i \in Identifiers(c)}]

\* Variant of RemovedEntries: only the primary identifier's entry is removed.
RemovedPrimaryOnly(c) == {Entry("id", PrimaryId[c], c)}

\* The entries removeComponent(c) removes: one for each identifier of c that is set.
RemovedEntries(c) == {Entry(i[1], i[2], c) : i \in Identifiers(c)}

\* removeComponent(c)
RemoveComponentResult(map, c) ==
    IF IsDetached(c)
    THEN [error |-> RemoveDetachedError, map |-> map]
    ELSE [error |-> "none", map |-> map \ RemovedEntries(c)]

\* Variant of WithoutPrevious: the entry of the previous value is kept.
KeepPrevious(map, c, name, previousValue) == map

\* updateComponent: the map without c's entry for the previous value.
WithoutPrevious(map, c, name, previousValue) == map \ {Entry(name, previousValue, c)}

\* updateComponent(c, name, {previousValue, newValue})
UpdateComponentResult(map, c, name, previousValue, newValue) ==
    IF IdentifierExists(map, name, newValue, {c})
    THEN [error |-> SameIdentifierError, map |-> map]
    ELSE [error |-> "none",
          map |-> WithoutPrevious(map, c, name, previousValue)
                     \cup {Entry(name, newValue, c)}]

InMap(c) == \E e \in identityMap : e.component = c

MapInit ==
    /\ batchable = FALSE
    /\ version = NoVersion
    /\ InitClient
    /\ refs = ChainRefs
    /\ empty = {}
    /\ qdeps = {}
    /\ ser = NoSer
    /\ knownComponents = {}
    /\ InitIdentityMap
    /\ InitApp
    /\ email \in [Users -> Emails \cup {Unset}]
    /\ InitSelectors

AddComponent(c) ==
    /\ LET r == AddComponentResult(identityMap, c)
       IN /\ identityMap' = r.map
          /\ thrown' = [op |-> "addComponent", component |-> c, error |-> r.error]
    /\ UNCHANGED <<email, detached, clientVars, serVars, selVars, appVars>>

\* removeComponent(c), for a component that was added or one that is detached.
RemoveComponent(c) ==
    /\ InMap(c) \/ IsDetached(c)
    /\ LET r == RemoveComponentResult(identityMap, c)
       IN /\ identityMap' = r.map
          /\ thrown' = [op |-> "removeComponent", component |-> c, error |-> r.error]
    /\ UNCHANGED <<email, detached, clientVars, serVars, selVars, appVars>>

\* c.email = newValue together with updateComponent(c, 'email', {previousValue,
\* newValue}), for an attached component of the map; the attribute keeps its previous
\* value when the call throws.
UpdateComponent(c, newValue) ==
    /\ InMap(c)
    /\ ~IsDetached(c)
    /\ newValue # email[c]
    /\ LET r == UpdateComponentResult(identityMap, c, "email", email[c], newValue)
       IN /\ identityMap' = r.map
          /\ email' = IF r.error = "none" THEN [email EXCEPT ![c] = newValue] ELSE email
          /\ thrown' = [op |-> "updateComponent", component |-> c, error |-> r.error]
    /\ UNCHANGED <<detached, clientVars, serVars, selVars, appVars>>

\* c.detach()
Detach(c) ==
    /\ ~IsDetached(c)
    /\ detached' = detached \cup {c}
    /\ thrown' = [op |-> "detach", component |-> c, error |-> "none"]
    /\ UNCHANGED <<identityMap, email, clientVars, serVars, selVars, appVars>>

MapNext ==
    \/ \E c \in Users : AddComponent(c)
    \/ \E c \in Users : RemoveComponent(c)
    \/ \E c \in Users, newValue \in Emails : UpdateComponent(c, newValue)
    \/ \E c \in Users : Detach(c)

MapSpec == MapInit /\ [][MapNext]_vars

(***************************************************************************)
(* AttributeSelector (part_001:446-793)                                    *)
(***************************************************************************)
SelNames == {"a", "b"}

\* Object.entries() order. The properties of the selectors below are always written in
\* this order; the functions modelled here return the same value for any other.
NameOrder == <<"a", "b">>

Leaves == {SelUndefined, SelTrue, SelFalse}

\* The plain objects whose property names are among SelNames, with values in `values`.
ObjectsOver(values) ==
    {SelObject(f) : f \in UNION {[D -> values] : D \in SUBSET SelNames}}

\* The selectors the functions are applied to: undefined, true, false, and objects
\* nested two deep.
Selectors == Leaves \cup ObjectsOver(Leaves \cup ObjectsOver(Leaves))

\* A smaller set of selectors: undefined, true, false and the mappings over true, false
\* and the mappings of true leaves.
LawSelectors == Leaves \cup ObjectsOver({SelTrue, SelFalse} \cup ObjectsOver({SelTrue}))

\* The values that are no attribute selector: null, a number, a string, an array, an
\* instance of a class.
InvalidKinds == {"null", "number", "string", "array", "instance"}

InvalidValues == {[t |-> kind, fields |-> <<>>] : kind \in InvalidKinds}

\* The error normalize() throws: 'Expected a valid attribute selector, ...'.
InvalidSelectorError == [t |-> "InvalidSelectorError", fields |-> <<>>]

\* Variant of Normalize: every value other than undefined passes through.
NormalizeLenient(s) == IF s.t = "undefined" THEN SelFalse ELSE s

\* normalize(attributeSelector): a plain object is returned as it is, its properties
\* untouched.
Normalize(s) ==
    IF s.t = "undefined" THEN SelFalse
    ELSE IF s.t \in {"true", "false"} THEN s
    ELSE IF s.t = "object" THEN s
    ELSE InvalidSelectorError

\* typeof attributeSelector === 'boolean'
IsBoolean(s) == s.t \in {"true", "false"}

\* a === b on normalized selectors: equal booleans. Two objects are taken to be
\* distinct references; for one and the same object the comparison of the entries
\* that follows in includes() returns true as well.
StrictEquals(a, b) == IsBoolean(a) /\ IsBoolean(b) /\ a.t = b.t

\* attributeSelector[name]
Prop(s, name) == IF name \in DOMAIN s.fields THEN s.fields[name] ELSE SelUndefined

\* The property names of Object.entries(attributeSelector), in order.
Entries(s) == SelectSeq(NameOrder, LAMBDA name : name \in DOMAIN s.fields)

\* Variant of Iterate: every entry is yielded.
IterateAll(s) ==
    [i \in 1..Len(Entries(s)) |->
        [name |-> Entries(s)[i], sub |-> Normalize(s.fields[Entries(s)[i]])]]

\* iterate(attributeSelector): the entries whose normalized value is not false, each
\* with its normalized value.
Iterate(s) ==
    LET names == SelectSeq(Entries(s),
                           LAMBDA name : Normalize(s.fields[name]).t # "false")
    IN [i \in 1..Len(names) |-> [name |-> names[i], sub |-> Normalize(s.fields[names[i]])]]

\* Variant of Includes: the entries are compared by name only, without recursion.
IncludesShallow(s, o) ==
    LET a == Normalize(s)
        b == Normalize(o)
    IN IF StrictEquals(a, b) THEN TRUE
       ELSE IF IsBoolean(a) THEN a.t = "true"
       ELSE IF IsBoolean(b) THEN b.t # "true"
       ELSE \A name \in DOMAIN b.fields : name \in DOMAIN a.fields

\* includes(attributeSelector, otherAttributeSelector)
RECURSIVE Includes(_, _)
Includes(s, o) ==
    LET a == Normalize(s)
        b == Normalize(o)
    IN IF StrictEquals(a, b) THEN TRUE
       ELSE IF IsBoolean(a) THEN a.t = "true"
       ELSE IF IsBoolean(b) THEN b.t # "true"
       ELSE \A name \in DOMAIN b.fields : Includes(Prop(a, name), b.fields[name])

\* Variant of Set: a false sub-selector is stored under the name instead of the name
\* being omitted.
SetKeepsFalse(s, name, sub) ==
    LET a == Normalize(s)
        n == Normalize(sub)
    IN IF IsBoolean(a) THEN a
       ELSE SelObject([k \in DOMAIN a.fields \cup {name} |->
                         IF k = name THEN n ELSE a.fields[k]])

\* isEqual(attributeSelector, otherAttributeSelector): === holds for equal primitives
\* (two objects are distinct references), otherwise each includes the other.
IsEqual(s, o) ==
    \/ s.t = o.t /\ s.t \in {"undefined", "true", "false"}
    \/ Includes(s, o) /\ Includes(o, s)

\* set(attributeSelector, name, subattributeSelector)
Set(s, name, sub) ==
    LET a == Normalize(s)
        n == Normalize(sub)
    IN IF IsBoolean(a) THEN a
       ELSE IF n.t = "false"
            THEN SelObject([k \in DOMAIN a.fields \ {name} |-> a.fields[k]])
            ELSE SelObject([k \in DOMAIN a.fields \cup {name} |->
                              IF k = name THEN n ELSE a.fields[k]])

RECURSIVE Add(_, _)

\* Variant of AddSub: the other selector's property replaces the property.
AddSubOverwrite(sub, otherSub) == otherSub

\* this.add(subattributeSelector, otherSubattributeSelector)
AddSub(sub, otherSub) == Add(sub, otherSub)

\* The for loop of add() over Object.entries(otherAttributeSelector), from entry i.
RECURSIVE AddEntries(_, _, _)
AddEntries(acc, other, i) ==
    IF i > Len(Entries(other)) THEN acc
    ELSE LET name == Entries(other)[i]
         IN AddEntries(Set(acc, name, AddSub(Prop(acc, name), other.fields[name])),
                       other, i + 1)

\* Variant of Add: a mapping is kept when true is added to it.
AddKeepsMapping(s, o) ==
    LET a == Normalize(s)
        b == Normalize(o)
    IN IF a.t = "true" THEN SelTrue
       ELSE IF a.t = "false" THEN b
       ELSE IF b.t \in {"true", "false"} THEN a
       ELSE AddEntries(a, b, 1)

\* add(attributeSelector, otherAttributeSelector)
Add(s, o) ==
    LET a == Normalize(s)
        b == Normalize(o)
    IN IF a.t = "true" THEN SelTrue
       ELSE IF a.t = "false" THEN b
       ELSE IF b.t = "true" THEN SelTrue
       ELSE IF b.t = "false" THEN a
       ELSE AddEntries(a, b, 1)

\* What a function that throws leaves in place of a result.
RemoveFromTrueError == [t |-> "RemoveFromTrueError", fields |-> <<>>]

IsError(s) == s.t \in {"RemoveFromTrueError", "InvalidSelectorError"}

RECURSIVE Remove(_, _)

\* Variant of RemoveSub: the property is given up whatever the other selector removes
\* from it.
RemoveSubWhole(sub, otherSub) == SelFalse

\* this.remove(subattributeSelector, otherSubattributeSelector)
RemoveSub(sub, otherSub) == Remove(sub, otherSub)

\* The for loop of remove() over Object.entries(otherAttributeSelector), from entry i;
\* an error thrown by the nested remove() ends it.
RECURSIVE RemoveEntries(_, _, _)
RemoveEntries(acc, other, i) ==
    IF i > Len(Entries(other)) THEN acc
    ELSE LET name == Entries(other)[i]
             sub == RemoveSub(Prop(acc, name), other.fields[name])
         IN IF IsError(sub) THEN sub
            ELSE RemoveEntries(Set(acc, name, sub), other, i + 1)

\* Variant of RemoveFromTrue: an object removed from `true` gives false.
RemoveFromTrueGivesFalse(b) == SelFalse

\* remove(true, b) for an object b: throw new Error("Cannot remove an 'object'
\* attribute selector from a 'true' attribute selector")
RemoveFromTrue(b) == RemoveFromTrueError

\* remove(attributeSelector, otherAttributeSelector)
Remove(s, o) ==
    LET a == Normalize(s)
        b == Normalize(o)
    IN IF b.t = "true" THEN SelFalse
       ELSE IF b.t = "false" THEN a
       ELSE IF a.t = "true" THEN RemoveFromTrue(b)
       ELSE IF a.t = "false" THEN SelFalse
       ELSE RemoveEntries(a, b, 1)

(***************************************************************************)
(* SelSpec: the AttributeSelector functions applied to every pair of       *)
(* Selectors                                                               *)
(***************************************************************************)
SelInit ==
    /\ batchable = FALSE
    /\ version = NoVersion
    /\ InitClient
    /\ refs = ChainRefs
    /\ empty = {}
    /\ qdeps = {}
    /\ ser = NoSer
    /\ knownComponents = {}
    /\ InitIdentityMap
    /\ InitApp
    /\ email = [c \in Users |-> Unset]
    /\ selA \in Selectors
    /\ selB \in Selectors
    /\ InitPickArgs
    /\ out = NoOut

\* AttributeSelector.add(selA, selB)
AddCall ==
    /\ ~out.done
    /\ out' = [done |-> TRUE, sum |-> Add(selA, selB)]
    /\ UNCHANGED <<selArgs, appVars, clientVars, serVars, mapVars>>

SelNext == AddCall

SelSpec == SelInit /\ [][SelNext]_vars

\* RemSpec: remove() applied to every pair of Selectors.
RemoveCall ==
    /\ ~out.done
    /\ out' = [done |-> TRUE, diff |-> Remove(selA, selB)]
    /\ UNCHANGED <<selArgs, appVars, clientVars, serVars, mapVars>>

RemNext == RemoveCall

RemSpec == SelInit /\ [][RemNext]_vars

(***************************************************************************)
(* serialize() of a component class (package @layr/component, of which     *)
(* the sources hold the tests only): the class graph is refs, refs[c]      *)
(* being the classes the static attributes of c hold                       *)
(***************************************************************************)
\* Class graphs without cycles: a class refers to later classes of ClassOrder only.
AcyclicRefs ==
    {r \in [Classes -> SUBSET Classes] :
        \A i, j \in 1..Len(ClassOrder) : ClassOrder[j] \in r[ClassOrder[i]] => i < j}

NoClassSer == [done |-> FALSE, root |-> "none", given |-> {}, ok |-> TRUE, unknown |-> "none"]

\* Variant of IsKnownComponent: every class is taken as known.
IsKnownComponentAlways(c, deps) == TRUE

\* The class is in knownComponents or in the dependency set accumulated so far.
IsKnownComponent(c, deps) == c \in knownComponents \cup deps

\* Serializing class c: "The 'c' component is unknown" unless it is known; then its
\* static attributes in turn, every class they hold being serialized in place and
\* registered in componentDependencies. st = [ok, unknown, deps].
RECURSIVE SerializeClass(_, _)
RECURSIVE SerializeAttributes(_, _, _)
SerializeAttributes(c, st, i) ==
    IF i > Len(ClassOrder) \/ ~st.ok THEN st
    ELSE IF ClassOrder[i] \notin refs[c] THEN SerializeAttributes(c, st, i + 1)
    ELSE LET after == SerializeClass(ClassOrder[i], st)
         IN SerializeAttributes(c,
                IF after.ok THEN [after EXCEPT !.deps = @ \cup {ClassOrder[i]}] ELSE after,
                i + 1)

SerializeClass(c, st) ==
    IF ~IsKnownComponent(c, st.deps)
    THEN [st EXCEPT !.ok = FALSE, !.unknown = c]
    ELSE SerializeAttributes(c, st, 1)

\* KnownSpec: serialize(c, {knownComponents, componentDependencies}) for every class c
\* of every acyclic class graph.
KnownInit ==
    /\ batchable = FALSE
    /\ version = NoVersion
    /\ InitClient
    /\ refs \in AcyclicRefs
    /\ empty = {}
    /\ qdeps \in SUBSET Classes
    /\ ser = NoClassSer
    /\ knownComponents \in SUBSET Classes
    /\ InitIdentityMap
    /\ InitApp
    /\ email = [c \in Users |-> Unset]
    /\ InitSelectors

SerializeClassCall(c) ==
    /\ ~ser.done
    /\ LET st == SerializeClass(c, [ok |-> TRUE, unknown |-> "none", deps |-> qdeps])
       IN /\ ser' = [done |-> TRUE, root |-> c, given |-> qdeps,
                     ok |-> st.ok, unknown |-> st.unknown]
          /\ qdeps' = st.deps
    /\ UNCHANGED <<clientVars, refs, empty, knownComponents, mapVars, selVars, appVars>>

KnownNext == \E c \in Classes : SerializeClassCall(c)

KnownSpec == KnownInit /\ [][KnownNext]_vars

(***************************************************************************)
(* pick(): values are undefined, a number, plain objects and arrays; an    *)
(* array keeps its items, in order, in `fields`                            *)
(***************************************************************************)
MaxItems == 2

SelNumber == [t |-> "number", fields |-> <<>>]

ArraysOver(values) ==
    {[t |-> "array", fields |-> items] : items \in UNION {[1..n -> values] : n \in 0..MaxItems}}

ValueLeaves == {SelUndefined, SelNumber}

\* The values pick() is applied to: leaves, objects of leaves, objects of objects and
\* of arrays of leaves, arrays of leaves and of objects of leaves.
PickValues ==
    ValueLeaves
      \cup ObjectsOver(ValueLeaves \cup ObjectsOver(ValueLeaves) \cup ArraysOver(ValueLeaves))
      \cup ArraysOver(ValueLeaves \cup ObjectsOver(ValueLeaves))

\* "Cannot pick attributes from a value when the specified attribute selector is 'false'"
PickFalseError == [t |-> "PickFalseError", fields |-> <<>>]

\* "Cannot pick attributes from a value that is not a plain object or an array"
UnsupportedValueError == [t |-> "UnsupportedValueError", fields |-> <<>>]

IsPickError(v) == v.t \in {"PickFalseError", "UnsupportedValueError"}

RECURSIVE _Pick(_, _, _)

\* Variant of _PickFromObject: only the names the object owns become keys.
_PickFromObjectOwnOnly(object, sel, inc) ==
    LET its == Iterate(sel)
        names == {its[i].name : i \in DOMAIN its}
        sub(name) == its[CHOOSE i \in DOMAIN its : its[i].name = name].sub
        picked == [name \in names |-> _Pick(Prop(object, name), sub(name), inc)]
    IN IF \E name \in names : IsPickError(picked[name]) THEN UnsupportedValueError
       ELSE SelObject([name \in (names \cup inc) \cap DOMAIN object.fields |->
                         IF name \in names THEN picked[name] ELSE object.fields[name]])

\* _pickFromObject(object, attributeSelector, {includeAttributeNames}): result[name] is
\* assigned for every included name the object owns, then for every iterated name,
\* whether or not the object has it. An error thrown below ends the call.
_PickFromObject(object, sel, inc) ==
    LET its == Iterate(sel)
        names == {its[i].name : i \in DOMAIN its}
        sub(name) == its[CHOOSE i \in DOMAIN its : its[i].name = name].sub
        picked == [name \in names |-> _Pick(Prop(object, name), sub(name), inc)]
    IN IF \E name \in names : IsPickError(picked[name]) THEN UnsupportedValueError
       ELSE SelObject([name \in names \cup (inc \cap DOMAIN object.fields) |->
                         IF name \in names THEN picked[name] ELSE object.fields[name]])

\* _pickFromArray(array, attributeSelector, {includeAttributeNames})
_PickFromArray(array, sel, inc) ==
    LET picked == [i \in DOMAIN array.fields |-> _Pick(array.fields[i], sel, inc)]
    IN IF \E i \in DOMAIN picked : IsPickError(picked[i]) THEN UnsupportedValueError
       ELSE [t |-> "array", fields |-> picked]

\* _pick(value, attributeSelector, {includeAttributeNames})
_Pick(v, sel, inc) ==
    IF sel.t = "true" THEN v
    ELSE IF v.t = "undefined" THEN SelUndefined
    ELSE IF v.t = "object" THEN _PickFromObject(v, sel, inc)
    ELSE IF v.t = "array" THEN _PickFromArray(v, sel, inc)
    ELSE UnsupportedValueError

\* pick(value, attributeSelector, {includeAttributeNames})
Pick(v, s, inc) ==
    LET sel == Normalize(s)
    IN IF sel.t = "false" THEN PickFalseError ELSE _Pick(v, sel, inc)

\* PickSpec: pick() applied to every value, selector and set of included names.
PickInit ==
    /\ batchable = FALSE
    /\ version = NoVersion
    /\ InitClient
    /\ refs = ChainRefs
    /\ empty = {}
    /\ qdeps = {}
    /\ ser = NoSer
    /\ knownComponents = {}
    /\ InitIdentityMap
    /\ InitApp
    /\ email = [c \in Users |-> Unset]
    /\ selA \in LawSelectors
    /\ selB = SelUndefined
    /\ selC = SelUndefined
    /\ pickValue \in PickValues
    /\ include \in SUBSET SelNames
    /\ heap = <<>>
    /\ out = NoOut

PickCall ==
    /\ ~out.done
    /\ out' = [done |-> TRUE, picked |-> Pick(pickValue, selA, include)]
    /\ UNCHANGED <<selArgs, appVars, clientVars, serVars, mapVars>>

PickNext == PickCall

PickSpec == PickInit /\ [][PickNext]_vars

\* NormSpec: normalize() applied to every selector and to the values that are none,
\* iterate() to every mapping.
NormInit ==
    /\ batchable = FALSE
    /\ version = NoVersion
    /\ InitClient
    /\ refs = ChainRefs
    /\ empty = {}
    /\ qdeps = {}
    /\ ser = NoSer
    /\ knownComponents = {}
    /\ InitIdentityMap
    /\ InitApp
    /\ email = [c \in Users |-> Unset]
    /\ selA \in Selectors \cup InvalidValues
    /\ selB = SelUndefined
    /\ InitPickArgs
    /\ out = NoOut

NormalizeCall ==
    /\ ~out.done
    /\ out' = [done |-> TRUE, op |-> "normalize", normalized |-> Normalize(selA)]
    /\ UNCHANGED <<selArgs, appVars, clientVars, serVars, mapVars>>

\* iterate() takes an object (ow.object).
IterateCall ==
    /\ ~out.done
    /\ selA.t = "object"
    /\ out' = [done |-> TRUE, op |-> "iterate", entries |-> Iterate(selA)]
    /\ UNCHANGED <<selArgs, appVars, clientVars, serVars, mapVars>>

NormNext == NormalizeCall \/ IterateCall

NormSpec == NormInit /\ [][NormNext]_vars

\* SetSpec: set() applied to every pair of Selectors and every name.
SetCall(name) ==
    /\ ~out.done
    /\ out' = [done |-> TRUE, name |-> name, result |-> Set(selA, name, selB)]
    /\ UNCHANGED <<selArgs, appVars, clientVars, serVars, mapVars>>

SetNext == \E name \in SelNames : SetCall(name)

SetSpec == SelInit /\ [][SetNext]_vars

\* LawSpec: add() applied both ways round to every pair, and nested both ways to every
\* triple, of LawSelectors.

LawInit ==
    /\ batchable = FALSE
    /\ version = NoVersion
    /\ InitClient
    /\ refs = ChainRefs
    /\ empty = {}
    /\ qdeps = {}
    /\ ser = NoSer
    /\ knownComponents = {}
    /\ InitIdentityMap
    /\ InitApp
    /\ email = [c \in Users |-> Unset]
    /\ selA \in LawSelectors
    /\ selB \in LawSelectors
    /\ selC \in LawSelectors
    /\ pickValue = SelUndefined
    /\ include = {}
    /\ heap = <<>>
    /\ out = NoOut

\* add(selA, selB) and add(selB, selA)
AddBothWays ==
    /\ ~out.done
    /\ out' = [done |-> TRUE, op |-> "pair",
               ab |-> Add(selA, selB), ba |-> Add(selB, selA)]
    /\ UNCHANGED <<selArgs, appVars, clientVars, serVars, mapVars>>

\* add(add(selA, selB), selC) and add(selA, add(selB, selC))
AddNested ==
    /\ ~out.done
    /\ out' = [done |-> TRUE, op |-> "triple",
               left |-> Add(Add(selA, selB), selC), right |-> Add(selA, Add(selB, selC))]
    /\ UNCHANGED <<selArgs, appVars, clientVars, serVars, mapVars>>

LawNext == AddBothWays \/ AddNested

LawSpec == LawInit /\ [][LawNext]_vars

\* IncSpec: includes() applied to every pair of Selectors.
IncludesCall ==
    /\ ~out.done
    /\ out' = [done |-> TRUE, includes |-> Includes(selA, selB)]
    /\ UNCHANGED <<selArgs, appVars, clientVars, serVars, mapVars>>

IncNext == IncludesCall

IncSpec == SelInit /\ [][IncNext]_vars

(***************************************************************************)
(* FrameSpec: the AttributeSelector functions on objects in memory. A      *)
(* plain object is a reference Ref(id) to heap[id], its properties; a      *)
(* function returns the memory it leaves and its value. Values are         *)
(* undefined, booleans and plain objects.                                  *)
(***************************************************************************)
Ref(id) == [t |-> "ref", id |-> id]

Returns(h, v) == [h |-> h, v |-> v]

\* The object literal s laid out in memory h, properties first.
RECURSIVE Alloc(_, _)
RECURSIVE AllocFields(_, _, _, _)
AllocFields(h, s, i, cell) ==
    IF i > Len(Entries(s)) THEN Returns(h, cell)
    ELSE LET name == Entries(s)[i]
             r == Alloc(h, s.fields[name])
         IN AllocFields(r.h, s, i + 1, (name :> r.v) @@ cell)

Alloc(h, s) ==
    IF s.t # "object" THEN Returns(h, s)
    ELSE LET r == AllocFields(h, s, 1, <<>>)
         IN Returns(Append(r.h, r.v), Ref(Len(r.h) + 1))

\* The structure of value v in memory h.
RECURSIVE Deref(_, _)
Deref(h, v) ==
    IF v.t # "ref" THEN v
    ELSE SelObject([name \in DOMAIN h[v.id] |-> Deref(h, h[v.id][name])])

\* normalize() of undefined, a boolean or a plain object
HNormalize(v) == IF v.t = "undefined" THEN SelFalse ELSE v

\* object[name]
HProp(h, v, name) == IF name \in DOMAIN h[v.id] THEN h[v.id][name] ELSE SelUndefined

\* Object.entries(object), taken when the loop starts
HEntries(h, v) ==
    LET names == SelectSeq(NameOrder, LAMBDA name : name \in DOMAIN h[v.id])
    IN [i \in 1..Len(names) |-> [name |-> names[i], sub |-> h[v.id][names[i]]]]

\* get(attributeSelector, name)
HGet(h, s, name) ==
    LET a == HNormalize(s)
    IN Returns(h, IF IsBoolean(a) THEN a ELSE HNormalize(HProp(h, a, name)))

\* omit(attributeSelector, name) and {...attributeSelector, [name]: sub}: the
\* properties of the object set() builds
SetProperties(h, a, name, n) ==
    IF n.t = "false"
    THEN [k \in DOMAIN h[a.id] \ {name} |-> h[a.id][k]]
    ELSE [k \in DOMAIN h[a.id] \cup {name} |-> IF k = name THEN n ELSE h[a.id][k]]

\* Variant of HSet: the property is deleted from, or assigned on, the object passed.
HSetInPlace(h, s, name, sub) ==
    LET a == HNormalize(s)
        n == HNormalize(sub)
    IN IF IsBoolean(a) THEN Returns(h, a)
       ELSE Returns([h EXCEPT ![a.id] = SetProperties(h, a, name, n)], a)

\* set(attributeSelector, name, subattributeSelector): omit() and the spread build a
\* new object
HSet(h, s, name, sub) ==
    LET a == HNormalize(s)
        n == HNormalize(sub)
    IN IF IsBoolean(a) THEN Returns(h, a)
       ELSE Returns(Append(h, SetProperties(h, a, name, n)), Ref(Len(h) + 1))

\* includes(attributeSelector, otherAttributeSelector)
RECURSIVE HIncludes(_, _, _)
HIncludes(h, s, o) ==
    LET a == HNormalize(s)
        b == HNormalize(o)
    IN IF a = b THEN TRUE
       ELSE IF IsBoolean(a) THEN a.t = "true"
       ELSE IF IsBoolean(b) THEN b.t # "true"
       ELSE \A name \in DOMAIN h[b.id] : HIncludes(h, HProp(h, a, name), h[b.id][name])

\* add(attributeSelector, otherAttributeSelector)
RECURSIVE HAdd(_, _, _)
RECURSIVE HAddEntries(_, _, _, _)
HAddEntries(h, acc, es, i) ==
    IF i > Len(es) THEN Returns(h, acc)
    ELSE LET sum == HAdd(h, HProp(h, acc, es[i].name), es[i].sub)
             next == HSet(sum.h, acc, es[i].name, sum.v)
         IN HAddEntries(next.h, next.v, es, i + 1)

HAdd(h, s, o) ==
    LET a == HNormalize(s)
        b == HNormalize(o)
    IN IF a.t = "true" THEN Returns(h, SelTrue)
       ELSE IF a.t = "false" THEN Returns(h, b)
       ELSE IF b.t = "true" THEN Returns(h, SelTrue)
       ELSE IF b.t = "false" THEN Returns(h, a)
       ELSE HAddEntries(h, a, HEntries(h, b), 1)

\* remove(attributeSelector, otherAttributeSelector)
RECURSIVE HRemove(_, _, _)
RECURSIVE HRemoveEntries(_, _, _, _)
HRemoveEntries(h, acc, es, i) ==
    IF i > Len(es) THEN Returns(h, acc)
    ELSE LET diff == HRemove(h, HProp(h, acc, es[i].name), es[i].sub)
             next == HSet(diff.h, acc, es[i].name, diff.v)
         IN IF IsError(diff.v) THEN diff
            ELSE HRemoveEntries(next.h, next.v, es, i + 1)

HRemove(h, s, o) ==
    LET a == HNormalize(s)
        b == HNormalize(o)
    IN IF b.t = "true" THEN Returns(h, SelFalse)
       ELSE IF b.t = "false" THEN Returns(h, a)
       ELSE IF a.t = "true" THEN Returns(h, RemoveFromTrueError)
       ELSE IF a.t = "false" THEN Returns(h, SelFalse)
       ELSE HRemoveEntries(h, a, HEntries(h, b), 1)

\* iterate(attributeSelector)
HIterate(h, sel) ==
    LET es == HEntries(h, sel)
        kept == SelectSeq(es, LAMBDA e : HNormalize(e.sub).t # "false")
    IN [i \in 1..Len(kept) |-> [name |-> kept[i].name, sub |-> HNormalize(kept[i].sub)]]

\* result[name] = v
Assign(h, result, name, v) == [h EXCEPT ![result.id] = (name :> v) @@ @]

\* The first loop of _pickFromObject, over includeAttributeNames from name i on.
RECURSIVE PickIncluded(_, _, _, _, _)
PickIncluded(h, result, object, inc, i) ==
    IF i > Len(NameOrder) THEN h
    ELSE IF NameOrder[i] \in inc /\ NameOrder[i] \in DOMAIN h[object.id]
         THEN PickIncluded(Assign(h, result, NameOrder[i], h[object.id][NameOrder[i]]),
                           result, object, inc, i + 1)
         ELSE PickIncluded(h, result, object, inc, i + 1)

\* _pick(value, attributeSelector, {includeAttributeNames})
RECURSIVE _HPick(_, _, _, _)

\* The second loop of _pickFromObject, over iterate(attributeSelector) from entry i on.
RECURSIVE PickIterated(_, _, _, _, _, _)
PickIterated(h, result, object, its, inc, i) ==
    IF i > Len(its) THEN Returns(h, result)
    ELSE LET picked == _HPick(h, HProp(h, object, its[i].name), its[i].sub, inc)
         IN IF IsPickError(picked.v) THEN picked
            ELSE PickIterated(Assign(picked.h, result, its[i].name, picked.v),
                              result, object, its, inc, i + 1)

\* _pickFromObject(object, attributeSelector, {includeAttributeNames}): result = {} is
\* a new object, and the only one assigned to
_HPickFromObject(h, object, sel, inc) ==
    LET result == Ref(Len(h) + 1)
    IN PickIterated(PickIncluded(Append(h, <<>>), result, object, inc, 1),
                    result, object, HIterate(h, sel), inc, 1)

_HPick(h, v, sel, inc) ==
    IF sel.t = "true" THEN Returns(h, v)
    ELSE IF v.t = "undefined" THEN Returns(h, SelUndefined)
    ELSE IF v.t = "ref" THEN _HPickFromObject(h, v, sel, inc)
    ELSE Returns(h, UnsupportedValueError)

\* pick(value, attributeSelector, {includeAttributeNames})
HPick(h, v, s, inc) ==
    LET sel == HNormalize(s)
    IN IF sel.t = "false" THEN Returns(h, PickFalseError) ELSE _HPick(h, v, sel, inc)

\* The two arguments are two object literals or, aliased, one and the same object.
FrameInit ==
    /\ batchable = FALSE
    /\ version = NoVersion
    /\ InitClient
    /\ refs = ChainRefs
    /\ empty = {}
    /\ qdeps = {}
    /\ ser = NoSer
    /\ knownComponents = {}
    /\ InitIdentityMap
    /\ InitApp
    /\ email = [c \in Users |-> Unset]
    /\ \E first \in LawSelectors, second \in LawSelectors, aliased \in BOOLEAN :
          LET r1 == Alloc(<<>>, first)
              r2 == IF aliased THEN r1 ELSE Alloc(r1.h, second)
          IN /\ heap = r2.h
             /\ selA = r1.v
             /\ selB = r2.v
    /\ selC = SelUndefined
    /\ pickValue = SelUndefined
    /\ include = {}
    /\ out = NoOut

\* A call that leaves memory r.h and returns r.v.
FrameCall(op, r) ==
    /\ ~out.done
    /\ heap' = r.h
    /\ out' = [done |-> TRUE, op |-> op, v |-> r.v]
    /\ UNCHANGED <<selA, selB, selC, pickValue, include, clientVars, serVars, mapVars, appVars>>

GetH(name) == FrameCall("get", HGet(heap, selA, name))

SetH(name) == FrameCall("set", HSet(heap, selA, name, selB))

IncludesH ==
    FrameCall("includes", Returns(heap, IF HIncludes(heap, selA, selB) THEN SelTrue ELSE SelFalse))

AddH == FrameCall("add", HAdd(heap, selA, selB))

RemoveH == FrameCall("remove", HRemove(heap, selA, selB))

\* pick(selA, selB, {includeAttributeNames: inc}): selA is the value
PickH(inc) == FrameCall("pick", HPick(heap, selA, selB, inc))

FrameNext ==
    \/ \E name \in SelNames : GetH(name)
    \/ \E name \in SelNames : SetH(name)
    \/ IncludesH
    \/ AddH
    \/ RemoveH
    \/ \E inc \in SUBSET SelNames : PickH(inc)

FrameSpec == FrameInit /\ [][FrameNext]_vars

(***************************************************************************)
(* Document: save() and delete()                                           *)
(***************************************************************************)
\* The client, the serializer, the identity map and the selectors at rest.
InitRest ==
    /\ batchable = FALSE
    /\ version = NoVersion
    /\ InitClient
    /\ refs = ChainRefs
    /\ empty = {}
    /\ qdeps = {}
    /\ ser = NoSer
    /\ knownComponents = {}
    /\ InitIdentityMap
    /\ email = [c \in Users |-> Unset]
    /\ InitSelectors

MaxDocCalls == 3

DocIds == {"m1"}

Titles == {"Inception", "Memento"}

Years == {2000, 2001}

\* The fields of the document: its id and two fields of a subclass (no subdocuments).
FieldNames == {"id", "title", "year"}

\* @field('string', {serializedName: '_id'}) id
SerializedName(f) == IF f = "id" THEN "_id" ELSE f

\* A document made by its constructor: nothing committed, _isPersisted never assigned.
NewDocument(id, title, year) ==
    [fields |-> [id |-> id, title |-> title, year |-> year],
     committed |-> <<>>,
     isPersisted |-> "undefined"]

\* Model.commit(): the current values become the committed ones.
Commit(d) == [d EXCEPT !.committed = d.fields]

\* static get(): the document deserialized from the store, _isPersisted = true.
LoadedDocument(id, title, year) ==
    [Commit(NewDocument(id, title, year)) EXCEPT !.isPersisted = "true"]

IsChanged(d, f) == f \notin DOMAIN d.committed \/ d.committed[f] # d.fields[f]

NoOptions == [given |-> FALSE, includeFields |-> {}, includeChangedFields |-> FALSE]

\* Variant of SaveOptions: no options whatever _isPersisted is.
SaveOptionsNone(d) == NoOptions
\* save(): the options of serialize(), left undefined unless the document is persisted.
SaveOptions(d) ==
    IF d.isPersisted = "true"
    THEN [given |-> TRUE, includeFields |-> {"id"}, includeChangedFields |-> TRUE]
    ELSE NoOptions

\* delete(): serialize({includeFields: ['id'], includeFieldsOfType: undefined}).
DeleteOptions == [given |-> TRUE, includeFields |-> {"id"}, includeChangedFields |-> FALSE]

\* Model.serialize(options): the type and, under their serialized names, every field
\* when no options are given, otherwise the fields of includeFields and, with
\* includeChangedFields, the fields changed since the last commit.
SerializedFields(d, options) ==
    IF ~options.given THEN FieldNames
    ELSE {f \in FieldNames :
            \/ f \in options.includeFields
            \/ options.includeChangedFields /\ IsChanged(d, f)}

SerializeDocument(d, options) ==
    LET included == SerializedFields(d, options)
        names == {"_type"} \cup {SerializedName(f) : f \in included}
    IN [n \in names |->
          IF n = "_type" THEN "Movie"
          ELSE d.fields[CHOOSE f \in included : SerializedName(f) = n]]

SaveOrder == <<"beforeSave", "store.set", "commit", "_isPersisted", "afterSave">>

CannotDeleteError(d) ==
    "Cannot delete a non-persisted document (model: 'Movie', id: '" \o d.fields.id \o "')"

\* Variant of IsNotPersisted: delete() never refuses.
IsNotPersistedNever(d) == FALSE
\* delete(): if (!this._isPersisted) throw
IsNotPersisted(d) == d.isPersisted # "true"

\* Variant of AfterStoreSet: commit() and _isPersisted = true whatever store.set did.
AfterStoreSetAlways(d, ok) == [Commit(d) EXCEPT !.isPersisted = "true"]
\* save() after 'await store.set(...)': commit() and _isPersisted = true when the
\* promise is fulfilled, nothing when it is rejected.
AfterStoreSet(d, ok) == IF ok THEN [Commit(d) EXCEPT !.isPersisted = "true"] ELSE d

\* calls: the calls made so far; last: the last lifecycle operation that succeeded.
IdleCall(calls, last, result) ==
    [op |-> "none", pc |-> "idle", trace |-> <<>>, calls |-> calls, last |-> last,
     result |-> result]

\* The store before any call.
NoStoreCall ==
    [n |-> 0, op |-> "none", payload |-> <<>>, persisted |-> "undefined",
     fields |-> <<>>, changed |-> {}, last |-> "none"]

\* The n-th call of the store, with the document as it is when the call is made:
\* _isPersisted, the fields, the changed fields, the last successful operation.
StoreCall(op, payload) ==
    [n |-> store.n + 1, op |-> op, payload |-> payload, persisted |-> doc.isPersisted,
     fields |-> doc.fields, changed |-> {f \in FieldNames : IsChanged(doc, f)},
     last |-> docCall.last]

DocInit ==
    /\ InitRest
    /\ InitRouter
    /\ InitInstance
    /\ \E id \in DocIds, title \in Titles, year \in Years, loaded \in BOOLEAN :
          /\ doc = IF loaded THEN LoadedDocument(id, title, year)
                             ELSE NewDocument(id, title, year)
          /\ docCall = IdleCall(0, IF loaded THEN "load" ELSE "none", "none")
    /\ store = NoStoreCall

DocUnchanged == UNCHANGED <<clientVars, serVars, mapVars, selVars, routerVars, instVars>>

\* document.title = ... or document.year = ..., between two calls.
SetField(f, v) ==
    /\ docCall.pc = "idle"
    /\ doc.fields[f] # v
    /\ doc' = [doc EXCEPT !.fields[f] = v]
    /\ UNCHANGED <<store, docCall>>
    /\ DocUnchanged

\* save() up to 'await this.beforeSave()'.
Save ==
    /\ docCall.pc = "idle"
    /\ docCall.calls < MaxDocCalls
    /\ docCall' = [docCall EXCEPT !.op = "save", !.pc = "beforeSave",
                                  !.trace = <<"beforeSave">>, !.calls = @ + 1,
                                  !.result = "none"]
    /\ UNCHANGED <<doc, store>>
    /\ DocUnchanged

\* save() from the options to 'await store.set(serializedDocument)'.
SaveSet ==
    /\ docCall.pc = "beforeSave"
    /\ store' = StoreCall("set", SerializeDocument(doc, SaveOptions(doc)))
    /\ docCall' = [docCall EXCEPT !.pc = "store.set", !.trace = Append(@, "store.set")]
    /\ UNCHANGED doc
    /\ DocUnchanged

\* store.set() is fulfilled or rejected; save() goes on to 'await this.afterSave()'
\* or is rejected.
SaveAfterSet(ok) ==
    /\ docCall.pc = "store.set"
    /\ doc' = AfterStoreSet(doc, ok)
    /\ docCall' =
          IF ok
          THEN [docCall EXCEPT !.pc = "afterSave",
                               !.trace = @ \o <<"commit", "_isPersisted", "afterSave">>]
          ELSE [docCall EXCEPT !.op = "none", !.pc = "idle",
                               !.result = "store.set rejected"]
    /\ UNCHANGED store
    /\ DocUnchanged

\* afterSave() is done: save() is fulfilled.
SaveEnd ==
    /\ docCall.pc = "afterSave"
    /\ docCall' = [docCall EXCEPT !.op = "none", !.pc = "idle", !.result = "ok",
                                  !.last = "save"]
    /\ UNCHANGED <<doc, store>>
    /\ DocUnchanged

\* delete() up to 'await this.beforeDelete({cascade})'.
Delete ==
    /\ docCall.pc = "idle"
    /\ docCall.calls < MaxDocCalls
    /\ docCall' = [docCall EXCEPT !.op = "delete", !.pc = "beforeDelete",
                                  !.trace = <<"beforeDelete">>, !.calls = @ + 1,
                                  !.result = "none"]
    /\ UNCHANGED <<doc, store>>
    /\ DocUnchanged

\* delete() from the _isPersisted test to 'await store.delete(serializedDocument)'.
DeleteCheck ==
    /\ docCall.pc = "beforeDelete"
    /\ IF IsNotPersisted(doc)
       THEN /\ docCall' = [docCall EXCEPT !.op = "none", !.pc = "idle",
                                          !.result = CannotDeleteError(doc)]
            /\ UNCHANGED store
       ELSE /\ store' = StoreCall("delete", SerializeDocument(doc, DeleteOptions))
            /\ docCall' = [docCall EXCEPT !.pc = "store.delete",
                                          !.trace = Append(@, "store.delete")]
    /\ UNCHANGED doc
    /\ DocUnchanged

\* store.delete() is fulfilled or rejected.
DeleteAfterStore(ok) ==
    /\ docCall.pc = "store.delete"
    /\ IF ok
       THEN /\ doc' = [doc EXCEPT !.isPersisted = "false"]
            /\ docCall' = [docCall EXCEPT !.pc = "afterDelete",
                                          !.trace = @ \o <<"_isPersisted", "afterDelete">>]
       ELSE /\ UNCHANGED doc
            /\ docCall' = [docCall EXCEPT !.op = "none", !.pc = "idle",
                                          !.result = "store.delete rejected"]
    /\ UNCHANGED store
    /\ DocUnchanged

\* afterDelete() is done: delete() is fulfilled.
DeleteEnd ==
    /\ docCall.pc = "afterDelete"
    /\ docCall' = [docCall EXCEPT !.op = "none", !.pc = "idle", !.result = "ok",
                                  !.last = "delete"]
    /\ UNCHANGED <<doc, store>>
    /\ DocUnchanged

DocNext ==
    \/ \E title \in Titles : SetField("title", title)
    \/ \E year \in Years : SetField("year", year)
    \/ Save
    \/ SaveSet
    \/ \E ok \in BOOLEAN : SaveAfterSet(ok)
    \/ SaveEnd
    \/ Delete
    \/ DeleteCheck
    \/ \E ok \in BOOLEAN : DeleteAfterStore(ok)
    \/ DeleteEnd

DocSpec == DocInit /\ [][DocNext]_vars

(***************************************************************************)
(* Router: registerRoutable() and getRoutable()                            *)
(***************************************************************************)
Routers == {"router", "router2"}

\* The classes handed to registerRoutable(): three routable components and a class
\* that is not one.
RoutableClasses == {"User", "User2", "Movie"}

RegisteredClasses == RoutableClasses \cup {"NotARoutable"}

\* User2.setComponentName('User')
GetComponentName(c) == IF c = "User2" THEN "User" ELSE c

ComponentNames == {GetComponentName(c) : c \in RoutableClasses}

NotARoutableError(c) ==
    "Expected a routable component class, but received a value of type 'typeof " \o c \o "'"

OtherRouterError(c) ==
    "Cannot register a routable component that is already registered in another router (component: '"
        \o GetComponentName(c) \o "')"

SameNameError(c) ==
    "A routable component with the same name is already registered (component: '"
        \o GetComponentName(c) \o "')"

NotRegisteredError(name) ==
    "The routable component '" \o name \o "' is not registered in the router"

\* The routable a router holds under a name, if any.
RoutablesNamed(rts, r, name) ==
    {i \in 1..Len(rts[r]) : GetComponentName(rts[r][i]) = name}

HasRoutable(rts, r, name) == RoutablesNamed(rts, r, name) # {}

\* Variant of HasRouter: a routable is never taken to have a router.
HasRouterNever(rof, c) == FALSE
\* routable.hasRouter()
HasRouter(rof, c) == rof[c] # "none"

\* Variant of HasSameName: the name is never taken to be in use.
HasSameNameNever(rts, r, c) == FALSE
\* A routable is registered in the router under the name of c.
HasSameName(rts, r, c) == HasRoutable(rts, r, GetComponentName(c))

\* router.registerRoutable(c): the routers of the routables, the routables of the
\* routers and the error thrown ("none" when the call returns).
RegisterRoutableResult(rof, rts, r, c) ==
    IF c \notin RoutableClasses
    THEN [routerOf |-> rof, routables |-> rts, error |-> NotARoutableError(c)]
    ELSE IF HasRouter(rof, c)
    THEN [routerOf |-> rof, routables |-> rts,
          error |-> IF rof[c] = r THEN "none" ELSE OtherRouterError(c)]
    ELSE IF HasSameName(rts, r, c)
    THEN [routerOf |-> rof, routables |-> rts, error |-> SameNameError(c)]
    ELSE [routerOf |-> [rof EXCEPT ![c] = r],
          routables |-> [rts EXCEPT ![r] = Append(@, c)],
          error |-> "none"]

\* router.getRoutable(name): the routable, or the error thrown.
GetRoutableResult(rts, r, name) ==
    IF HasRoutable(rts, r, name)
    THEN [value |-> rts[r][CHOOSE i \in RoutablesNamed(rts, r, name) : TRUE],
          error |-> "none"]
    ELSE [value |-> "none", error |-> NotRegisteredError(name)]

RouterInit ==
    /\ batchable = FALSE
    /\ version = NoVersion
    /\ InitClient
    /\ refs = ChainRefs
    /\ empty = {}
    /\ qdeps = {}
    /\ ser = NoSer
    /\ knownComponents = {}
    /\ identityMap = {}
    /\ detached = {}
    /\ thrown = [op |-> "none", router |-> "none", component |-> "none",
                 value |-> "none", error |-> "none"]
    /\ email = [c \in Users |-> Unset]
    /\ InitSelectors
    /\ InitDoc
    /\ InitInstance
    /\ routerOf = [c \in RoutableClasses |-> "none"]
    /\ routables = [r \in Routers |-> <<>>]

RouterUnchanged ==
    UNCHANGED <<identityMap, email, detached, clientVars, serVars, selVars, docVars, instVars>>

RegisterRoutable(r, c) ==
    /\ LET res == RegisterRoutableResult(routerOf, routables, r, c)
       IN /\ routerOf' = res.routerOf
          /\ routables' = res.routables
          /\ thrown' = [op |-> "registerRoutable", router |-> r, component |-> c,
                        value |-> "none", error |-> res.error]
    /\ RouterUnchanged

GetRoutable(r, name) ==
    /\ LET res == GetRoutableResult(routables, r, name)
       IN thrown' = [op |-> "getRoutable", router |-> r, component |-> name,
                     value |-> res.value, error |-> res.error]
    /\ UNCHANGED routerVars
    /\ RouterUnchanged

RouterNext ==
    \/ \E r \in Routers, c \in RegisteredClasses : RegisterRoutable(r, c)
    \/ \E r \in Routers, name \in ComponentNames : GetRoutable(r, name)

RouterSpec == RouterInit /\ [][RouterNext]_vars

(***************************************************************************)
(* Serialization of component instances                                    *)
(***************************************************************************)
\* How deep the instances held by attributes are nested.
MaxDepth == 1

\* class Movie { @attribute() title; @attribute() director; @attribute() sequel }
\* title and director hold strings or undefined, sequel holds a Movie.
AttrNames == {"title", "director", "sequel"}

\* The values of attributes: undefined, a string, or a component instance with its
\* isNew mark and the attributes that are set (an unset attribute is not in attrs).
VUndefined == [t |-> "undefined", s |-> "", isNew |-> FALSE, attrs |-> <<>>]

VString(s) == [t |-> "string", s |-> s, isNew |-> FALSE, attrs |-> <<>>]

VComponent(name, isNew, attrs) == [t |-> "component", s |-> name, isNew |-> isNew, attrs |-> attrs]

\* The choice of leaving an attribute unset.
VUnset == [t |-> "unset", s |-> "", isNew |-> FALSE, attrs |-> <<>>]

AttrsOf(title, director, sequel) ==
    LET choice == [a \in AttrNames |-> IF a = "title" THEN title
                                        ELSE IF a = "director" THEN director ELSE sequel]
    IN [a \in {b \in AttrNames : choice[b] # VUnset} |-> choice[a]]

RECURSIVE MovieInstances(_)
MovieInstances(depth) ==
    {VComponent("Movie", isNew, AttrsOf(title, director, sequel)) :
        isNew \in BOOLEAN,
        title \in {VUnset, VUndefined, VString(""), VString("Inception")},
        director \in {VUnset, VUndefined, VString("Christopher Nolan")},
        sequel \in IF depth = 0 THEN {VUnset} ELSE {VUnset} \cup MovieInstances(depth - 1)}

\* JSON values: a string, true, or an object with its properties.
JString(s) == [t |-> "string", s |-> s, fields |-> <<>>]

JTrue == [t |-> "true", s |-> "", fields |-> <<>>]

JObject(fields) == [t |-> "object", s |-> "", fields |-> fields]

\* undefined becomes the sentinel object {__undefined: true}.
UndefinedSentinel == JObject([n \in {"__undefined"} |-> JTrue])

\* Variant of IsSerialized: every attribute is serialized, set or unset.
IsSerializedAlways(x, a, filter) == TRUE
\* An attribute is serialized when it is set and passes the attribute filter.
IsSerialized(x, a, filter) == a \in DOMAIN x.attrs /\ a \in filter

\* serialize(value, {knownComponents, attributeFilter}) for a string, undefined or a
\* component instance: __component, __new for a new instance, and the attributes
\* that are serialized; an attribute that is not set serializes as undefined does.
RECURSIVE Serialize(_, _)
Serialize(v, filter) ==
    IF v.t = "undefined" THEN UndefinedSentinel
    ELSE IF v.t = "string" THEN JString(v.s)
    ELSE LET attributes == {a \in AttrNames : IsSerialized(v, a, filter)}
             names == {"__component"} \cup (IF v.isNew THEN {"__new"} ELSE {})
                          \cup attributes
         IN JObject([n \in names |->
                IF n = "__component" THEN JString(v.s)
                ELSE IF n = "__new" THEN JTrue
                ELSE IF n \in DOMAIN v.attrs THEN Serialize(v.attrs[n], filter)
                ELSE UndefinedSentinel])

\* The classes deserialize() resolves names against: rootComponent and what it provides.
Registry(rootComponent) == {rootComponent}

UnknownComponent == [t |-> "UnknownComponent", s |-> "", isNew |-> FALSE, attrs |-> <<>>]

\* Variant of IsMarkedNew: __new is not read.
IsMarkedNewNever(json) == FALSE
\* The serialized instance has __new: true.
IsMarkedNew(json) == "__new" \in DOMAIN json.fields /\ json.fields["__new"] = JTrue

\* deserialize(json, {rootComponent}): the sentinel gives undefined; {__component: name,
\* __new, ...attrs} gives an instance of the class resolved in the registry, new when
\* __new is there, with the attributes of attrs assigned and no other.
RECURSIVE DeserializeValue(_, _)
DeserializeValue(json, rootComponent) ==
    IF json.t = "string" THEN VString(json.s)
    ELSE IF json = UndefinedSentinel THEN VUndefined
    ELSE IF json.fields["__component"].s \notin Registry(rootComponent) THEN UnknownComponent
    ELSE LET attrs == DOMAIN json.fields \ {"__component", "__new"}
             values == [a \in attrs |-> DeserializeValue(json.fields[a], rootComponent)]
         IN IF \E a \in attrs : values[a] = UnknownComponent THEN UnknownComponent
            ELSE VComponent(json.fields["__component"].s, IsMarkedNew(json), values)

NoWire == [stage |-> "none", filter |-> {}, json |-> JString(""), back |-> VUndefined]

InstInit ==
    /\ InitRest
    /\ InitDoc
    /\ InitRouter
    /\ instance \in MovieInstances(MaxDepth)
    /\ wire = NoWire

InstUnchanged == UNCHANGED <<clientVars, serVars, mapVars, selVars, docVars, routerVars>>

\* serialize(instance, {knownComponents: [Movie], attributeFilter}), the filter letting
\* the attributes of a set of names through (every attribute when none is given).
SerializeInstance(filter) ==
    /\ wire.stage = "none"
    /\ wire' = [wire EXCEPT !.stage = "serialized", !.filter = filter,
                            !.json = Serialize(instance, filter)]
    /\ UNCHANGED instance
    /\ InstUnchanged

\* deserialize(serialized, {rootComponent: Movie})
DeserializeInstance ==
    /\ wire.stage = "serialized"
    /\ wire' = [wire EXCEPT !.stage = "deserialized",
                            !.back = DeserializeValue(wire.json, "Movie")]
    /\ UNCHANGED instance
    /\ InstUnchanged

InstNext ==
    \/ \E filter \in SUBSET AttrNames : SerializeInstance(filter)
    \/ DeserializeInstance

InstSpec == InstInit /\ [][InstNext]_vars

(***************************************************************************)
(* Properties                                                              *)
(***************************************************************************)
ReqIds == 1..Len(reqs)

OpIds == 1..Len(ops)

NOps(r) == Len(reqs[r].ops)

OpOf(r, i) == ops[reqs[r].ops[i]]

\* The operations enqueued during tick k (between flush k and flush k + 1), in order.
OpsOfTick(k) == SelectSeq([i \in 1..Len(ops) |-> i], LAMBDA o : ops[o].tick = k)

SettledAs(o, outcome) ==
    /\ ops[o].val = outcome
    /\ ops[o].st = IF outcome.ok THEN "resolved" ELSE "rejected"

\* C1: over a client's lifetime, whatever the interleaving of getComponent() calls,
\* the introspect query is transmitted to the server at most once.
C1_IntrospectAtMostOnce ==
    Cardinality({<<r, i>> \in ReqIds \X (1..MaxOps) :
                    i <= Len(reqs[r].query.qs) /\ reqs[r].query.qs[i] = "introspect"}) <= 1

\* C2: the n >= 2 send() calls of one tick produce exactly one receive call, whose
\* query is {'||': [q1, ..., qn]} with the queries in enqueue order.
C2_OneBatchPerTick ==
    batchable =>
      \A k \in 0..(flushes - 1) :
        LET os == OpsOfTick(k) IN
          Len(os) >= 2 =>
            /\ Cardinality({r \in ReqIds : Range(reqs[r].ops) \cap Range(os) # {}}) = 1
            /\ \E r \in ReqIds :
                  /\ reqs[r].ops = os
                  /\ reqs[r].query.batch
                  /\ reqs[r].query.qs = [i \in 1..Len(os) |-> ops[os[i]].q]

C2_Witness ==
    \E r \in ReqIds :
        /\ NOps(r) = 3
        /\ reqs[r].query.qs = <<"q1", "q2", "q1">>

\* C3: in a batch whose receive succeeded, the k-th result deserialized is result[k],
\* it settles the k-th enqueued operation with Deserialize(result[k]) against that
\* operation's root, and the operations are settled in enqueue order.
C3_ResultsByIndex ==
    \A r \in ReqIds :
      (reqs[r].query.batch /\ reqs[r].pc \in {"results", "done"}) =>
        /\ \A k \in 1..(Len(reqs[r].trace) - 1) :
              /\ reqs[r].trace[k + 1] = [ev |-> "result", index |-> k, op |-> reqs[r].ops[k]]
              /\ SettledAs(reqs[r].ops[k],
                           Deserialize(reqs[r].resp.results[k], OpOf(r, k).root))
        /\ \A k \in Len(reqs[r].trace)..NOps(r) : OpOf(r, k).st = "pending"

C3_Witness ==
    \E r \in ReqIds :
        /\ reqs[r].query.batch
        /\ reqs[r].pc = "done"
        /\ NOps(r) = 3
        /\ \A k \in 1..3 : OpOf(r, k).st = "resolved" /\ OpOf(r, k).val.v = ResultPayload(k)

\* C4: in a batch whose receive succeeded and whose components deserialized, an error
\* sentinel at position i rejects the i-th caller only: the loop goes on, and every
\* other caller is settled with its own result.
C4_ErrorIsolated ==
    \A r \in ReqIds :
      (reqs[r].query.batch /\ ~reqs[r].resp.fail /\ reqs[r].resp.componentsOk) =>
        /\ reqs[r].pc \in {"results", "done"}
        /\ \A i \in 1..NOps(r) :
              (i < reqs[r].idx) =>
                 IF reqs[r].resp.results[i] = "err"
                 THEN OpOf(r, i).st = "rejected" /\ OpOf(r, i).val.v = "RemoteError"
                 ELSE OpOf(r, i).st = "resolved" /\ OpOf(r, i).val.v = reqs[r].resp.results[i]

C4_Witness ==
    \E r \in ReqIds :
        /\ reqs[r].query.batch
        /\ reqs[r].pc = "done"
        /\ reqs[r].resp.results[1] = "err"
        /\ OpOf(r, 1).st = "rejected"
        /\ \A i \in 2..NOps(r) : OpOf(r, i).st = "resolved"

\* C5: when receive itself fails for a batch of n >= 2 operations, every caller of
\* the batch is rejected with that failure.
C5_TransportFailureRejectsAll ==
    \A r \in ReqIds :
      (reqs[r].query.batch /\ reqs[r].resp.fail) =>
        \A i \in 1..NOps(r) : SettledAs(reqs[r].ops[i], TransportError)

\* What _sendOne produces from a response, for a query sent with rootComponent root.
SendOneOutcome(resp, root) ==
    IF resp.fail THEN TransportError
    ELSE IF ~resp.componentsOk THEN ComponentsError
    ELSE Deserialize(resp.results[1], root)

\* C6: a batch of exactly one operation is sent unwrapped and its caller is settled
\* with exactly what _sendOne produces for that query and rootComponent.
C6_BatchOfOneIsSingleSend ==
    \A r \in ReqIds :
      (NOps(r) = 1) =>
        /\ reqs[r].query = [batch |-> FALSE, qs |-> <<OpOf(r, 1).q>>]
        /\ reqs[r].pc # "threw"
        /\ reqs[r].pc = "done" =>
              SettledAs(reqs[r].ops[1], SendOneOutcome(reqs[r].resp, OpOf(r, 1).root))
        /\ reqs[r].pc # "done" => OpOf(r, 1).st = "pending"

C6_Witness ==
    \E r \in ReqIds :
        /\ reqs[r].flush > 0
        /\ NOps(r) = 1
        /\ reqs[r].pc = "done"
        /\ OpOf(r, 1).st = "resolved"

\* C7: the queue is drained atomically: an operation enqueued during tick k is part
\* of the single request of flush k + 1 and of no other request, and an operation
\* not yet transmitted is in the queue, waiting for the next flush.
C7_AtomicDrain ==
    batchable =>
      /\ \A o \in OpIds :
            LET in == {r \in ReqIds : o \in Range(reqs[r].ops)}
                waiting == {i \in 1..Len(queue) : queue[i] = o}
            IN /\ Cardinality(in) + Cardinality(waiting) = 1
               /\ \A r \in in : reqs[r].flush = ops[o].tick + 1
               /\ waiting # {} => (ops[o].tick = flushes /\ scheduled)
      /\ \A r1, r2 \in ReqIds : reqs[r1].flush = reqs[r2].flush => r1 = r2

C7_Witness ==
    /\ batchable
    /\ flushes = 2
    /\ Len(queue) = 1
    /\ \E r \in ReqIds : reqs[r].flush = 1 /\ NOps(r) = 1
    /\ \E r \in ReqIds : reqs[r].flush = 2 /\ NOps(r) = 1

\* The classes reachable from S along refs.
RECURSIVE ReachFrom(_)
ReachFrom(S) ==
    LET T == S \cup UNION {refs[c] : c \in S}
    IN IF T = S THEN S ELSE ReachFrom(T)

Count(seq, x) == Cardinality({i \in 1..Len(seq) : seq[i] = x})

\* C8: while one query is serialized, serialize() is called at most once on each
\* class, on every class of the transitive closure of the query's dependencies, and
\* the passes go on until one discovers no dependency.
C8_ClosureOnce ==
    ser.done =>
      /\ \A c \in Classes : Count(ser.out.calls, c) <= 1
      /\ Range(ser.out.calls) = ReachFrom(qdeps)
      /\ ser.out.handled = ReachFrom(qdeps)
      /\ ser.out.additional = {}
      /\ \A k \in 1..(Len(ser.out.passes) - 1) :
            ser.out.passes[k + 1] \subseteq UNION {refs[c] : c \in ser.out.passes[k]}

C8_Witness ==
    /\ ser.done
    /\ qdeps = {"A"}
    /\ refs["A"] = {"B", "C"} /\ refs["B"] = {"C"} /\ refs["C"] = {"A"}
    /\ ser.out.calls = <<"A", "B", "C">>
    /\ Len(ser.out.passes) = 3

\* The query references A, A depends on B and B depends on C.
Chain == "A" \in qdeps /\ "B" \in refs["A"] /\ "C" \in refs["B"]

\* C9 as stated: for a query referencing A -> B -> C the dependency list holds
\* exactly one serialized entry for B and exactly one for C.
C9_ExactlyOneEntry ==
    (ser.done /\ Chain) =>
      \A c \in {"B", "C"} : Count(ser.out.list, c) = 1

\* C9 amended: the dependency list holds exactly one entry for each of B and C whose
\* serialization is not undefined, and none for one whose serialization is undefined
\* (ignoreEmptyComponents), however often they are referenced.
C9_OneEntryUnlessEmpty ==
    (ser.done /\ Chain) =>
      \A c \in {"B", "C"} : Count(ser.out.list, c) = IF c \in empty THEN 0 ELSE 1

C9_Witness ==
    /\ ser.done
    /\ Chain
    /\ qdeps = {"A", "B", "C"}
    /\ refs["A"] = {"B", "C"} /\ refs["C"] = {"B", "C"}
    /\ empty = {}
    /\ ser.out.list = <<"A", "B", "C">>

\* C10: on both paths, no result of a response is deserialized before the
\* deserialization of that response's components has completed.
C10_ComponentsBeforeResults ==
    \A r \in ReqIds :
      /\ \A k \in 1..Len(reqs[r].trace) :
            reqs[r].trace[k].ev = "result" =>
               \E j \in 1..(k - 1) : reqs[r].trace[j] = ComponentsEvent
      /\ \A i \in 1..NOps(r) :
            OpOf(r, i).val.v \in {"RemoteError"} \cup {ResultPayload(j) : j \in 1..NOps(r)} =>
               /\ Len(reqs[r].trace) >= 1
               /\ reqs[r].trace[1] = ComponentsEvent

C10_Witness ==
    /\ \E r \in ReqIds :
          reqs[r].query.batch /\ reqs[r].pc = "done" /\ Len(reqs[r].trace) = 3
    /\ \E r \in ReqIds :
          ~reqs[r].query.batch /\ reqs[r].pc = "done" /\ Len(reqs[r].trace) = 2

VersionMismatchError == [ok |-> FALSE, v |-> "VersionMismatch", root |-> "none"]

\* C11: with a client version that differs from the server's, every request is answered
\* by the version rejection, no result is computed for any of its queries, and every
\* call carried by the request (introspection, single send, batched send) is rejected
\* with VersionMismatch.
C11_VersionMismatchFailsEveryCall ==
    (version # NoVersion /\ version # ServerVersion) =>
      \A r \in ReqIds :
        /\ reqs[r].version = version
        /\ reqs[r].pc # "sent" =>
              /\ reqs[r].resp = VersionMismatchResponse
              /\ \A i \in 1..NOps(r) : SettledAs(reqs[r].ops[i], VersionMismatchError)

\* C12: on a batch-enabled client send() only enqueues: receive is called by flushes
\* alone, an operation is carried by a flush that follows its enqueueing, and until
\* then it waits in the queue; without batching each send() has called receive at
\* once, exactly once, with its query alone and unwrapped.
C12_SendEnqueuesOrSendsAtOnce ==
    IF batchable
    THEN /\ \A r \in ReqIds : reqs[r].flush >= 1
         /\ \A o \in OpIds :
               \/ /\ \E i \in 1..Len(queue) : queue[i] = o
                  /\ \A r \in ReqIds : o \notin Range(reqs[r].ops)
                  /\ ops[o].st = "pending"
               \/ \E r \in ReqIds : o \in Range(reqs[r].ops) /\ reqs[r].flush > ops[o].tick
    ELSE /\ Len(reqs) = Len(ops)
         /\ queue = <<>>
         /\ flushes = 0
         /\ \A o \in OpIds :
               /\ reqs[o].ops = <<o>>
               /\ reqs[o].query = [batch |-> FALSE, qs |-> <<ops[o].q>>]
               /\ reqs[o].flush = 0

C12_Witness ==
    /\ batchable
    /\ flushes = 1
    /\ Len(reqs) = 1
    /\ Len(queue) = 2
    /\ \A i \in 1..2 : ops[queue[i]].st = "pending"

\* The receive calls made on behalf of operation o: the positions it has in requests.
CallsFor(o) == {<<r, i>> \in ReqIds \X (1..MaxOps) : i <= NOps(r) /\ reqs[r].ops[i] = o}

\* C13: no retry: receive is called at most once on behalf of each query passed to
\* send(), and exactly once for a query whose call has resolved or has failed, be
\* it at the transport or in deserialization.
C13_NoRetry ==
    \A o \in OpIds :
        /\ Cardinality(CallsFor(o)) <= 1
        /\ ops[o].st # "pending" => Cardinality(CallsFor(o)) = 1

C13_Witness ==
    /\ Len(reqs) = 3
    /\ \A r \in ReqIds : reqs[r].pc = "done"
    /\ \E o1, o2, o3 \in OpIds :
          /\ ops[o1].val = TransportError
          /\ ops[o2].val = ComponentsError
          /\ ops[o3].val.v = "RemoteError"

\* The dependencies collected from the query of request r.
ReqDeps(r) == UNION {QueryDeps(OpOf(r, i).root) : i \in 1..NOps(r)}

C15_ProxySendsEnvelope ==
    [][\A name \in MethodNames, X \in Receivers, args \in ArgLists :
          CallMethodProxy(name, X, args) =>
             LET o == Len(ops) + 1
                 envelope == [k \in {"<=", name \o "=>"} |->
                                 IF k = "<=" THEN X ELSE [p \in {"()"} |-> args]]
                 class == IF X = "a1" THEN "A" ELSE X
             IN /\ Len(ops') = o
                /\ ops'[o].q = envelope
                /\ ops'[o].root = class
                /\ ops'[o].st = "pending"
                /\ IF batchable
                   THEN queue' = Append(queue, o) /\ reqs' = reqs
                   ELSE /\ Len(reqs') = Len(reqs) + 1
                        /\ reqs'[Len(reqs')].ops = <<o>>
                        /\ reqs'[Len(reqs')].query = [batch |-> FALSE, qs |-> <<envelope>>]
                        /\ queue' = queue]_vars

C15_Witness ==
    /\ ~batchable
    /\ Len(ops) = 2
    /\ ops[1].q = [k \in {"<=", "save=>"} |-> IF k = "<=" THEN "a1" ELSE [p \in {"()"} |-> <<"x">>]]
    /\ ops[1].root = "A"
    /\ ops[2].q = [k \in {"<=", "find=>"} |-> IF k = "<=" THEN "B" ELSE [p \in {"()"} |-> <<>>]]
    /\ ops[2].root = "B"
    /\ reqs[1].query.qs = <<ops[1].q>>
    /\ reqs[2].query.qs = <<ops[2].q>>

\* C16: the identity map never holds two distinct components under the same value of
\* the same identifier, every component it holds is held under its current identifier
\* values, and addComponent of an attached component one of whose identifier values
\* is present fails with 'A component with the same identifier already exists' and
\* leaves the map as it was.
C16_NoDuplicateIdentifier ==
    /\ [](/\ \A e1, e2 \in identityMap :
                (e1.name = e2.name /\ e1.value = e2.value) => e1.component = e2.component
          /\ \A e \in identityMap : <<e.name, e.value>> \in Identifiers(e.component))
    /\ [][\A c \in Users :
            (/\ AddComponent(c)
             /\ c \notin detached
             /\ \E e \in identityMap :
                   \/ e.name = "id" /\ e.value = PrimaryId[c]
                   \/ e.name = "email" /\ e.value = email[c])
            => /\ thrown'.error = "A component with the same identifier already exists"
               /\ identityMap' = identityMap]_vars

C16_Witness ==
    /\ thrown = [op |-> "addComponent", component |-> "u3",
                 error |-> "A component with the same identifier already exists"]
    /\ IdentityMapGetComponent(identityMap, "id", "abc123") = "u1"
    /\ ~InMap("u3")
    /\ Cardinality(identityMap) = 4

\* C17: once a component is detached, addComponent and removeComponent of it throw
\* ('Cannot add a detached component ...', 'Cannot remove a detached component ...')
\* and leave the map's contents as they were.
C17_DetachedRejected ==
    [][\A c \in Users :
          /\ (c \in detached /\ AddComponent(c))
                => /\ thrown'.error = "Cannot add a detached component to the identity map"
                   /\ identityMap' = identityMap
          /\ (c \in detached /\ RemoveComponent(c))
                => /\ thrown'.error = "Cannot remove a detached component from the identity map"
                   /\ identityMap' = identityMap]_vars

C17_Witness ==
    /\ thrown = [op |-> "removeComponent", component |-> "u1",
                 error |-> "Cannot remove a detached component from the identity map"]
    /\ "u1" \in detached
    /\ IdentityMapGetComponent(identityMap, "id", "abc123") = "u1"

C19_AddAfterRemove ==
    [][\A c \in Users :
          (RemoveComponent(c) /\ c \notin detached) =>
             /\ thrown'.error = "none"
             /\ IdentityMapGetComponent(identityMap', "id", PrimaryId[c]) = Unset
             /\ email[c] # Unset =>
                   IdentityMapGetComponent(identityMap', "email", email[c]) = Unset
             /\ AddComponentResult(identityMap', c) = [error |-> "none", map |-> identityMap]
             /\ IdentityMapGetComponent(AddComponentResult(identityMap', c).map,
                                        "id", PrimaryId[c]) = c]_vars

C19_Witness ==
    /\ thrown = [op |-> "removeComponent", component |-> "u1", error |-> "none"]
    /\ email["u1"] = "hi@hello.com"
    /\ IdentityMapGetComponent(identityMap, "id", "abc123") = Unset
    /\ IdentityMapGetComponent(identityMap, "email", "hi@hello.com") = Unset
    /\ InMap("u2")

\* C20: for all attribute selectors A and B, add(A, B) includes A and includes B.
C20_SumIncludesOperands ==
    out.done => (Includes(out.sum, selA) /\ Includes(out.sum, selB))

C20_Witness ==
    /\ out.done
    /\ selA = SelObject([k \in {"a"} |-> SelObject([j \in {"b"} |-> SelTrue])])
    /\ selB = SelObject([k \in {"a", "b"} |->
                           IF k = "a" THEN SelObject([j \in {"a"} |-> SelTrue]) ELSE SelTrue])
    /\ out.sum = SelObject([k \in {"a", "b"} |->
                              IF k = "a" THEN SelObject([j \in {"a", "b"} |-> SelTrue])
                              ELSE SelTrue])

\* A selector without any true leaf: false, or an object all of whose properties
\* are such objects.
RECURSIVE SelectsNothing(_)
SelectsNothing(s) ==
    \/ s.t = "false"
    \/ /\ s.t = "object"
       /\ \A k \in DOMAIN s.fields :
             s.fields[k].t = "object" /\ SelectsNothing(s.fields[k])

\* A mapping cut down to its mapping-valued keys, each cut down the same way.
RECURSIVE Skeleton(_)
Skeleton(s) ==
    SelObject([k \in {j \in DOMAIN s.fields : s.fields[j].t = "object"} |->
                 Skeleton(s.fields[k])])

\* C21 as stated: remove(A, A) is the value false for every A other than true, and
\* fails for A = true.
C21_RemoveSelfIsFalse ==
    (out.done /\ selA = selB /\ selA.t # "undefined") =>
       IF selA.t = "true" THEN IsError(out.diff) ELSE out.diff = SelFalse

\* C21 amended: remove(A, A) never fails; it is false for A = true and A = false, and
\* for a mapping A it is the mapping that keeps A's mapping-valued keys only, each cut
\* down the same way: a mapping without any true leaf, the empty mapping when A has
\* boolean leaves only.
C21_RemoveSelfSelectsNothing ==
    (out.done /\ selA = selB /\ selA.t # "undefined") =>
       /\ ~IsError(out.diff)
       /\ IF selA.t = "object"
          THEN /\ out.diff.t = "object"
               /\ SelectsNothing(out.diff)
               /\ out.diff = Skeleton(selA)
               /\ (\A k \in DOMAIN selA.fields : selA.fields[k].t # "object")
                     => out.diff = SelObject(<<>>)
          ELSE out.diff = SelFalse

C21_Witness ==
    /\ out.done
    /\ selA = selB
    /\ selA = SelObject([k \in {"a", "b"} |->
                           IF k = "a" THEN SelObject([j \in {"b"} |-> SelTrue]) ELSE SelTrue])
    /\ out.diff = SelObject([k \in {"a"} |-> SelObject(<<>>)])

\* Attribute names: those the selectors use and one they never name.
PathNames == SelNames \cup {"c"}

\* The attribute paths, from the root (<<>>) down three levels.
Paths == UNION {[1..n -> PathNames] : n \in 0..3}

\* Whether selector s selects the attribute at path p: true selects everything below
\* it, false and undefined nothing, a mapping the attribute it stands at and what its
\* properties select.
RECURSIVE Selects(_, _)
Selects(s, p) ==
    IF s.t = "true" THEN TRUE
    ELSE IF s.t # "object" THEN FALSE
    ELSE IF p = <<>> THEN TRUE
    ELSE Selects(Prop(s, Head(p)), Tail(p))

\* C22: includes(A, B) is true if and only if every attribute B selects, at any depth,
\* is selected by A; true includes every selector and false is included by every one.
C22_IncludesIffSelected ==
    out.done =>
       /\ out.includes <=> (\A p \in Paths : Selects(selB, p) => Selects(selA, p))
       /\ selA.t = "true" => out.includes
       /\ selB.t = "false" => out.includes

C22_Witness ==
    /\ out.done
    /\ ~out.includes
    /\ selA = SelObject([k \in {"a", "b"} |->
                           IF k = "a" THEN SelObject([j \in {"a"} |-> SelTrue]) ELSE SelTrue])
    /\ selB = SelObject([k \in {"a"} |-> SelObject([j \in {"a", "b"} |-> SelTrue])])

\* C23 as stated: the result of normalize on a mapping has no key whose value is false.
C23_NormalizeDropsFalse ==
    (out.done /\ out.op = "normalize" /\ selA.t = "object") =>
        \A name \in DOMAIN out.normalized.fields : out.normalized.fields[name].t # "false"

\* C23: it is iterating a mapping, not normalizing it, that leaves out the false
\* leaves: iterate yields exactly the entries whose value is neither false nor
\* undefined; normalize returns the mapping unchanged, false leaves included.
C23_IterateSkipsFalse ==
    out.done =>
       /\ (out.op = "iterate") =>
             /\ \A i \in DOMAIN out.entries : out.entries[i].sub.t # "false"
             /\ {out.entries[i].name : i \in DOMAIN out.entries}
                  = {name \in DOMAIN selA.fields : selA.fields[name].t \notin {"false", "undefined"}}
             /\ \A i \in DOMAIN out.entries : out.entries[i].sub = selA.fields[out.entries[i].name]
       /\ (out.op = "normalize" /\ selA.t = "object") => out.normalized = selA

C23_Witness ==
    /\ out.done
    /\ out.op = "iterate"
    /\ selA = SelObject([k \in {"a", "b"} |-> IF k = "a" THEN SelFalse ELSE SelTrue])
    /\ out.entries = <<[name |-> "b", sub |-> SelTrue]>>

\* C24: normalize returns false for undefined, a boolean or a plain mapping unchanged,
\* and fails with the invalid-selector error for null, numbers, strings, arrays and
\* class instances.
C24_NormalizeCases ==
    (out.done /\ out.op = "normalize") =>
       /\ selA.t = "undefined" => out.normalized = SelFalse
       /\ selA.t \in {"true", "false", "object"} => out.normalized = selA
       /\ selA.t \in InvalidKinds => out.normalized = InvalidSelectorError

C24_Witness ==
    /\ out.done
    /\ out.op = "normalize"
    /\ selA.t = "array"
    /\ out.normalized = InvalidSelectorError

\* C25: set(sel, name, false) on a mapping returns a mapping without the key name and
\* with every other key unchanged; set on a boolean returns that boolean, whatever the
\* name and the sub-selector.
C25_SetFalseOmitsKey ==
    out.done =>
       /\ (selA.t = "object" /\ selB.t = "false") =>
             /\ out.result.t = "object"
             /\ DOMAIN out.result.fields = DOMAIN selA.fields \ {out.name}
             /\ \A k \in DOMAIN out.result.fields : out.result.fields[k] = selA.fields[k]
       /\ IsBoolean(selA) => out.result = selA

C25_Witness ==
    /\ out.done
    /\ out.name = "a"
    /\ selA = SelObject([k \in {"a", "b"} |-> SelTrue])
    /\ selB = SelFalse
    /\ out.result = SelObject([k \in {"b"} |-> SelTrue])

\* C26: remove(true, B) fails with an error for every mapping B; remove(A, true) is
\* false and remove(A, false) is A, for every selector A (true, false or a mapping).
C26_RemoveBooleanCases ==
    (out.done /\ selA.t # "undefined") =>
       /\ (selA.t = "true" /\ selB.t = "object") => out.diff = RemoveFromTrueError
       /\ selB.t = "true" => out.diff = SelFalse
       /\ selB.t = "false" => out.diff = selA

C26_Witness ==
    /\ out.done
    /\ selA = SelTrue
    /\ selB = SelObject([k \in {"a"} |-> SelObject([j \in {"b"} |-> SelTrue])])
    /\ out.diff = RemoveFromTrueError

\* C27: add is commutative and associative up to isEqual: isEqual(add(A, B), add(B, A))
\* and isEqual(add(add(A, B), C), add(A, add(B, C))) for all selectors A, B, C; the two
\* sides are the same value when A, B, C are booleans.
C27_AddCommutesAndAssociates ==
    out.done =>
       /\ (out.op = "pair") =>
             /\ IsEqual(out.ab, out.ba)
             /\ (IsBoolean(selA) /\ IsBoolean(selB)) => out.ab = out.ba
       /\ (out.op = "triple") =>
             /\ IsEqual(out.left, out.right)
             /\ (IsBoolean(selA) /\ IsBoolean(selB) /\ IsBoolean(selC)) => out.left = out.right

\* add({a: false}, {a: {b: true}}) nested with {b: true}: both nestings give
\* {a: {b: true}, b: true}.
C27_Witness ==
    /\ out.done
    /\ out.op = "triple"
    /\ selA = SelObject([k \in {"a"} |-> SelFalse])
    /\ selB = SelObject([k \in {"a"} |-> SelObject([j \in {"b"} |-> SelTrue])])
    /\ selC = SelObject([k \in {"b"} |-> SelTrue])
    /\ out.left = out.right
    /\ out.left = SelObject([k \in {"a", "b"} |->
                               IF k = "a" THEN SelObject([j \in {"b"} |-> SelTrue]) ELSE SelTrue])

\* Whether, walking value v down mapping selector sel, a value that is neither
\* undefined nor a plain object nor an array stands where a mapping selector applies.
RECURSIVE Meets(_, _)
Meets(v, sel) ==
    /\ sel.t = "object"
    /\ CASE v.t = "undefined" -> FALSE
         [] v.t = "object" ->
               \E name \in DOMAIN sel.fields :
                   /\ sel.fields[name].t \notin {"false", "undefined"}
                   /\ Meets(Prop(v, name), sel.fields[name])
         [] v.t = "array" -> \E i \in DOMAIN v.fields : Meets(v.fields[i], sel)
         [] OTHER -> TRUE

\* Whether r is v projected by sel: under true the value itself; for an object, at every
\* level, the keys are the names with a non-false sub-selector and the included names
\* the object owns.
RECURSIVE KeysRight(_, _, _, _)
KeysRight(v, sel, inc, r) ==
    IF sel.t = "true" THEN r = v
    ELSE IF v.t = "undefined" THEN r = SelUndefined
    ELSE IF v.t = "object"
    THEN LET selected == {name \in DOMAIN sel.fields :
                             sel.fields[name].t \notin {"false", "undefined"}}
         IN /\ r.t = "object"
            /\ DOMAIN r.fields = selected \cup (inc \cap DOMAIN v.fields)
            /\ \A name \in selected :
                   KeysRight(Prop(v, name), sel.fields[name], inc, r.fields[name])
            /\ \A name \in DOMAIN r.fields \ selected : r.fields[name] = v.fields[name]
    ELSE /\ r.t = "array"
         /\ DOMAIN r.fields = DOMAIN v.fields
         /\ \A i \in DOMAIN v.fields : KeysRight(v.fields[i], sel, inc, r.fields[i])

\* C29: pick with a mapping selector returns, at every object level, exactly the keys
\* with a non-false sub-selector plus the names of includeAttributeNames the object
\* owns; it fails when a value that is neither undefined, a plain object nor an array
\* meets a mapping selector, and when the top-level selector is false.
C29_PickKeys ==
    out.done =>
       /\ selA.t = "false" => out.picked = PickFalseError
       /\ selA.t = "object" =>
             /\ Meets(pickValue, selA) <=> IsPickError(out.picked)
             /\ Meets(pickValue, selA) => out.picked = UnsupportedValueError
             /\ ~Meets(pickValue, selA) => KeysRight(pickValue, selA, include, out.picked)

\* pick({a: 1, b: {a: 1}}, {b: {b: true}}, {includeAttributeNames: ['a']}) is
\* {a: 1, b: {a: 1, b: undefined}}.
C29_Witness ==
    /\ out.done
    /\ include = {"a"}
    /\ selA = SelObject([k \in {"b"} |-> SelObject([j \in {"b"} |-> SelTrue])])
    /\ pickValue = SelObject([k \in {"a", "b"} |->
                                IF k = "a" THEN SelNumber
                                ELSE SelObject([j \in {"a"} |-> SelNumber])])
    /\ out.picked = SelObject([k \in {"a", "b"} |->
                                 IF k = "a" THEN SelNumber
                                 ELSE SelObject([j \in {"a", "b"} |->
                                                   IF j = "a" THEN SelNumber ELSE SelUndefined])])

\* C30: serializing a component class fails with the unknown-component error whenever
\* the class, or a class one of its serialized attributes refers to, is neither in
\* knownComponents nor in the dependency set; it succeeds when every one is known.
C30_UnknownComponentFails ==
    ser.done =>
       /\ ser.ok <=> ReachFrom({ser.root}) \subseteq knownComponents \cup ser.given
       /\ ~ser.ok => ser.unknown \in ReachFrom({ser.root}) \ (knownComponents \cup ser.given)

\* serialize(Cinema, {knownComponents: [Cinema]}) with Cinema.MovieClass = Movie:
\* "The 'Movie' component is unknown".
C30_Witness ==
    /\ ser.done
    /\ ser.root = "A"
    /\ refs["A"] = {"B"}
    /\ knownComponents = {"A"}
    /\ ser.given = {}
    /\ ~ser.ok
    /\ ser.unknown = "B"

\* C28: get, set, includes, add, remove and pick never modify the objects passed to
\* them: after the call each argument has the structure it had before the call.
C28_ArgumentsUntouched ==
    [][/\ Deref(heap', selA) = Deref(heap, selA)
       /\ Deref(heap', selB) = Deref(heap, selB)]_vars

\* add({a: {a: true}}, {a: {b: true}}) has built {a: {a: true, b: true}} in new objects.
C28_Witness ==
    /\ out.done
    /\ out.op = "add"
    /\ Deref(heap, selA) = SelObject([k \in {"a"} |-> SelObject([j \in {"a"} |-> SelTrue])])
    /\ Deref(heap, selB) = SelObject([k \in {"a"} |-> SelObject([j \in {"b"} |-> SelTrue])])
    /\ Deref(heap, out.v) = SelObject([k \in {"a"} |-> SelObject([j \in {"a", "b"} |-> SelTrue])])
    /\ Len(heap) = 6

\* C35: in a batch of two or more operations the response's components are
\* deserialized once, against the rootComponent of the first enqueued operation, and
\* each result against the rootComponent of its own operation; a batch whose operations
\* have different rootComponents is not rejected for that.
C35_FirstRootForComponents ==
    \A r \in ReqIds :
        (reqs[r].query.batch /\ ~reqs[r].resp.fail /\ reqs[r].pc # "sent") =>
           /\ \A i \in 1..NOps(r) : reqs[r].ops[1] <= reqs[r].ops[i]
           /\ reqs[r].croot = ops[reqs[r].ops[1]].root
           /\ Len(SelectSeq(reqs[r].trace, LAMBDA e : e.ev = "components")) <= 1
           /\ \A i \in 1..NOps(r) :
                  i < reqs[r].idx =>
                     /\ OpOf(r, i).st # "pending"
                     /\ OpOf(r, i).val.root = OpOf(r, i).root
                     /\ OpOf(r, i).st = "rejected" => reqs[r].resp.results[i] = "err"

\* A batch of q2 (rootComponent B) and q1 (rootComponent A): the components went against B,
\* both results were resolved, each against its own rootComponent.
C35_Witness ==
    \E r \in ReqIds :
        /\ reqs[r].query.batch
        /\ reqs[r].pc = "done"
        /\ NOps(r) = 2
        /\ OpOf(r, 1).root = "B"
        /\ OpOf(r, 2).root = "A"
        /\ reqs[r].croot = "B"
        /\ OpOf(r, 1).st = "resolved" /\ OpOf(r, 1).val.root = "B"
        /\ OpOf(r, 2).st = "resolved" /\ OpOf(r, 2).val.root = "A"

\* C36: every operation handed to _sendMany is settled exactly once, by resolve or by
\* reject, in every outcome: once _sendMany has ended, whether by returning or by
\* throwing, none of its operations is pending.
C36_EverySettledOnce ==
    \A r \in ReqIds :
        reqs[r].pc \in {"done", "threw"} =>
            \A i \in 1..NOps(r) : OpOf(r, i).st \in {"resolved", "rejected"}

\* C37: the dependency-closure loop of _serializeQuery terminates for every finite
\* dependency graph, cyclic ones and self-dependencies included, and when it has
\* terminated every class reachable from the query's dependencies is in the handled set.
C37_ClosureTerminates ==
    <>(/\ ser.done
       /\ ReachFrom(qdeps) \subseteq ser.out.handled
       /\ Len(ser.out.passes) <= Cardinality(Classes) + 1)

\* A depends on itself and on B, B depends on A.
C37_Witness ==
    /\ ser.done
    /\ qdeps = {"A"}
    /\ refs["A"] = {"A", "B"} /\ refs["B"] = {"A"}
    /\ ser.out.handled = {"A", "B"}
    /\ ser.out.calls = <<"A", "B">>

\* C38: while no introspection has succeeded neither _introspectedComponentServer nor
\* _component is set, a failed introspection included, and a getComponent() call then
\* sends a new introspect query; once getComponent() has succeeded the cached class
\* stays the one every later call returns, and such a call sends nothing.
C38_CachedClassStays ==
    [][/\ component # "none" => component' = component
       /\ (component # "none" /\ GetComponent) => UNCHANGED <<ops, reqs, queue>>
       /\ (\A o \in OpIds : ops[o].kind = "introspect" => ops[o].st # "resolved") =>
             /\ component = "none" /\ introspected = "none"
             /\ GetComponent => (Len(ops') = Len(ops) + 1 /\ ops'[Len(ops')].kind = "introspect")
      ]_vars

\* C40: save() runs beforeSave, store.set, commit, _isPersisted = true and afterSave in
\* that order: store.set receives the document before it is committed, and afterSave
\* runs on a committed, persisted document. When store.set is rejected nothing is
\* committed, _isPersisted keeps its value and afterSave does not run.
C40_SaveOrder ==
    [][/\ docCall'.op = "save" =>
             /\ \E n \in 1..Len(SaveOrder) : docCall'.trace = SubSeq(SaveOrder, 1, n)
             /\ docCall'.pc = "beforeSave" => store' = store /\ doc' = doc
             /\ docCall'.pc = "store.set" /\ docCall.pc = "beforeSave" =>
                   /\ doc' = doc
                   /\ store'.n = store.n + 1
                   /\ store'.op = "set"
             /\ docCall'.pc = "afterSave" /\ docCall.pc = "store.set" =>
                   /\ doc'.committed = doc.fields
                   /\ doc'.isPersisted = "true"
       /\ docCall.pc = "store.set" /\ docCall'.result = "store.set rejected" =>
             /\ doc' = doc
             /\ docCall'.pc = "idle"
             /\ docCall'.last = docCall.last
             /\ store' = store]_vars

\* A save() of a changed, persisted document that store.set rejected.
C40_Witness ==
    /\ docCall.result = "store.set rejected"
    /\ doc.isPersisted = "true"
    /\ doc.committed # doc.fields
    /\ docCall.last = "save"

\* C39: delete() on a document that is not persisted fails with 'Cannot delete a
\* non-persisted document ...', makes no call to store.delete and leaves
\* _isPersisted as it was; so every store.delete is for a document whose last
\* successful lifecycle operation was a save or a load.
C39_DeleteNeedsPersisted ==
    [][/\ docCall.pc = "beforeDelete" /\ doc.isPersisted # "true" =>
             /\ docCall'.result = CannotDeleteError(doc)
             /\ docCall'.pc = "idle"
             /\ store' = store
             /\ doc' = doc
       /\ store'.op = "delete" =>
             /\ store'.last \in {"save", "load"}
             /\ store' # store => docCall.last \in {"save", "load"}]_vars

\* A delete() refused after a successful delete() of a saved document.
C39_Witness ==
    /\ docCall.result = CannotDeleteError(doc)
    /\ doc.isPersisted = "false"
    /\ docCall.last = "delete"
    /\ store.op = "delete"
\* save() has handed a persisted document to store.set.
IsPersistedSet == store.op = "set" /\ store.persisted = "true"

RoutersHolding(c) == {r \in Routers : \E i \in 1..Len(routables[r]) : routables[r][i] = c}

\* C34: a routable component belongs to at most one router (the one it names as its
\* router) and a router holds at most one routable per component name. Registering a
\* routable again in its own router succeeds and changes nothing, registering it in a
\* second router fails, and registering another routable under a registered name fails.
C34_OneRouterOneName ==
    [][/\ \A c \in RoutableClasses :
             /\ Cardinality(RoutersHolding(c))' <= 1
             /\ RoutersHolding(c)' = IF routerOf'[c] = "none" THEN {} ELSE {routerOf'[c]}
       /\ \A r \in Routers, name \in ComponentNames :
             Cardinality(RoutablesNamed(routables, r, name))' <= 1
       /\ \A r \in Routers, c \in RoutableClasses :
             thrown' = [thrown' EXCEPT !.op = "registerRoutable", !.router = r,
                                       !.component = c] =>
                /\ routerOf[c] = r => thrown'.error = "none" /\ UNCHANGED routerVars
                /\ routerOf[c] \in Routers \ {r} =>
                      thrown'.error = OtherRouterError(c) /\ UNCHANGED routerVars
                /\ /\ routerOf[c] = "none"
                   /\ \E i \in 1..Len(routables[r]) :
                         GetComponentName(routables[r][i]) = GetComponentName(c)
                   => thrown'.error = SameNameError(c) /\ UNCHANGED routerVars
       /\ \A r \in Routers, name \in ComponentNames :
             thrown' = [thrown' EXCEPT !.op = "getRoutable", !.router = r,
                                       !.component = name] /\ thrown'.error = "none" =>
                /\ GetComponentName(thrown'.value) = name
                /\ routerOf[thrown'.value] = r]_vars

\* User is registered in router; registering User2, named 'User', there has just failed.
C34_Witness ==
    /\ routerOf["User"] = "router"
    /\ routerOf["Movie"] = "router2"
    /\ thrown = [op |-> "registerRoutable", router |-> "router", component |-> "User2",
                 value |-> "none", error |-> SameNameError("User2")]
\* The serialized form json is right for the instance x under the filter: __new: true
\* exactly when x is new, exactly the attributes that are set and pass the filter, the
\* sentinel for undefined, and the same of the instances held by its attributes.
RECURSIVE IsSerializedInstance(_, _, _)
IsSerializedInstance(json, x, filter) ==
    /\ json.t = "object"
    /\ "__component" \in DOMAIN json.fields
    /\ json.fields["__component"] = JString(x.s)
    /\ ("__new" \in DOMAIN json.fields) = x.isNew
    /\ x.isNew => json.fields["__new"] = JTrue
    /\ DOMAIN json.fields \ {"__component", "__new"} = DOMAIN x.attrs \cap filter
    /\ \A a \in DOMAIN x.attrs \cap filter :
          CASE x.attrs[a].t = "undefined" -> json.fields[a] = UndefinedSentinel
            [] x.attrs[a].t = "string" -> json.fields[a] = JString(x.attrs[a].s)
            [] OTHER -> IsSerializedInstance(json.fields[a], x.attrs[a], filter)

\* C31: a serialized instance carries __new: true exactly when the instance is new and
\* exactly the attributes that are set and pass the attribute filter: an unset attribute
\* never appears and a set attribute whose value is undefined appears as
\* {__undefined: true}.
C31_SetAndFilteredAttributes ==
    wire.stage # "none" => IsSerializedInstance(wire.json, instance, wire.filter)

\* A new instance with title undefined, director unset and a sequel that is not new,
\* serialized under a filter that lets title and sequel through.
C31_Witness ==
    /\ wire.stage = "serialized"
    /\ wire.filter = {"title", "sequel"}
    /\ instance.isNew
    /\ DOMAIN instance.attrs = {"title", "sequel"}
    /\ instance.attrs["title"] = VUndefined
    /\ ~instance.attrs["sequel"].isNew
    /\ DOMAIN wire.json.fields = {"__component", "__new", "title", "sequel"}

\* C32: for a component x of a class X in knownComponents,
\* deserialize(serialize(x, {knownComponents: [X]}), {rootComponent: X}) is an instance
\* whose observable attributes (which are set, their values, the isNew mark) are those
\* of x.
C32_RoundTrip ==
    wire.stage = "deserialized" /\ wire.filter = AttrNames => wire.back = instance

\* The round trip of a new instance holding undefined, a string and an instance.
C32_Witness ==
    /\ wire.stage = "deserialized"
    /\ wire.filter = AttrNames
    /\ instance.isNew
    /\ DOMAIN instance.attrs = AttrNames
    /\ instance.attrs["title"] = VUndefined
    /\ instance.attrs["sequel"].attrs # <<>>
    /\ wire.back = instance
====
